---------------------------- MODULE Spec2Model ----------------------------
(***************************************************************************)
(* WebChecker (lysanderMby/web_inspector): the breadth-first crawl of      *)
(* backend/webchecker/scraper.py and the PatternMatcher of                 *)
(* backend/webchecker/patterns.py.                                         *)
(*                                                                         *)
(* Python strings are sequences of characters; a character is a one-letter *)
(* TLA+ string.  URLs, page texts, tokens and result lines are all such    *)
(* sequences, so that parsing, joining, sorting and formatting are done    *)
(* the way the code does them.                                             *)
(***************************************************************************)
EXTENDS Integers, Sequences, FiniteSets, TLC

VARIABLES
    \* ---- WebScraper instance (scraper.py:43-70)
    max_pages,        \* self.max_pages
    max_depth,        \* self.max_depth
    follow_sitemap,   \* self.follow_sitemap
    visited_urls,     \* self.visited_urls
    \* ---- the running scrape_site call (its arguments and locals)
    pc,               \* "idle" | "loop" | "done": where the call stands
    start_url,
    pattern_matcher,
    extract_flags,    \* <<extract_before, extract_after>>
    email_mode,
    url_queue,        \* deque of [url, depth]
    results,          \* the list scrape_site returns (valid when pc = "done")
    email_groups,     \* defaultdict(set): email -> set of page urls
    earlier_visited,  \* self.visited_urls as the running call found it at entry
    \* ---- observation of the run (what the environment saw and answered)
    step,             \* what the last loop iteration did
    fetch_log,        \* every page the call processed: url, depth, outcome, yield
    \* ---- PatternMatcher construction and calls (patterns.py)
    ctor_args,        \* the arguments of the last PatternMatcher(...) call
    matcher,          \* the constructed object, or the raised error
    call,             \* the last method call on the matcher, with its arguments
    ret,              \* what that call returned
    \* ---- WebCheckerApp (web_app.py)
    clock,            \* int(time.time()), in seconds
    active_sessions,  \* self.active_sessions: session id -> its dict (0: no entry)
    session_data,     \* the session dicts ever created, in creation order
    workers,          \* the _scrape_worker threads, one per accepted request
    poll              \* what the last GET /api/status/<session_id> answered

vars == <<max_pages, max_depth, follow_sitemap, visited_urls, pc, start_url,
          pattern_matcher, extract_flags, email_mode, url_queue, results,
          email_groups, earlier_visited, step, fetch_log, ctor_args, matcher, call, ret,
          clock, active_sessions, session_data, workers, poll>>

-----------------------------------------------------------------------------
(* Bounds of the model *)

MaxPagesBound == 2
MaxDepthBound == 1
MaxClock == 1

-----------------------------------------------------------------------------
(* Python str operations on sequences of characters *)

Ascii ==
    <<" ", "!", "\"", "#", "$", "%", "&", "'", "(", ")", "*", "+", ",", "-", ".", "/",
      "0", "1", "2", "3", "4", "5", "6", "7", "8", "9", ":", ";", "<", "=", ">", "?",
      "@", "A", "B", "C", "D", "E", "F", "G", "H", "I", "J", "K", "L", "M", "N", "O",
      "P", "Q", "R", "S", "T", "U", "V", "W", "X", "Y", "Z", "[", "\\", "]", "^", "_",
      "BACKTICK", "a", "b", "c", "d", "e", "f", "g", "h", "i", "j", "k", "l", "m", "n", "o",
      "p", "q", "r", "s", "t", "u", "v", "w", "x", "y", "z", "{", "|", "}", "~">>

AsciiChars == {Ascii[i] : i \in 1..Len(Ascii)}

\* ord(c): the code point.  Characters outside printable ASCII are named
\* by a longer string ("BACKTICK" is U+0060, "TM" is U+2122, "ZWJ" is U+200D).
OtherOrd ==
    [c \in {"\n", "\t", "\r", "NBSP", "ZWSP", "ZWNJ", "ZWJ", "BOM", "TM"} |->
        CASE c = "\n" -> 10
          [] c = "\t" -> 9
          [] c = "\r" -> 13
          [] c = "NBSP" -> 160
          [] c = "ZWSP" -> 8203
          [] c = "ZWNJ" -> 8204
          [] c = "ZWJ" -> 8205
          [] c = "BOM" -> 65279
          [] c = "TM" -> 8482]
OrdMap ==
    [c \in AsciiChars \cup DOMAIN OtherOrd |->
        IF c \in AsciiChars THEN 31 + (CHOOSE i \in 1..Len(Ascii) : Ascii[i] = c)
        ELSE OtherOrd[c]]
Ord(c) == OrdMap[c]

UpperChars == {c \in AsciiChars : OrdMap[c] >= 65 /\ OrdMap[c] <= 90}
LowerAlphaChars == {c \in AsciiChars : OrdMap[c] >= 97 /\ OrdMap[c] <= 122}
AlphaChars == UpperChars \cup LowerAlphaChars
DigitChars == {c \in AsciiChars : OrdMap[c] >= 48 /\ OrdMap[c] <= 57}
AlnumChars == AlphaChars \cup DigitChars

IsAlpha(c) == c \in AlphaChars
IsDigit(c) == c \in DigitChars

\* str.lower() on one character
LowerMap == [c \in UpperChars |-> Ascii[OrdMap[c] + 32 - 31]]
LowerChar(c) == IF c \in UpperChars THEN LowerMap[c] ELSE c

\* s.lower()
Lower(s) == [i \in 1..Len(s) |-> LowerChar(s[i])]

\* s.startswith(p), s.endswith(p)
StartsWith(s, p) == Len(p) <= Len(s) /\ SubSeq(s, 1, Len(p)) = p
EndsWith(s, p) == Len(p) <= Len(s) /\ SubSeq(s, Len(s) - Len(p) + 1, Len(s)) = p

\* s.find(p, start) for a non-empty p, 1-based; 0 when absent (Python: -1)
RECURSIVE Find(_, _, _)
Find(s, p, start) ==
    IF start + Len(p) - 1 > Len(s) THEN 0
    ELSE IF s[start] = p[1] /\ SubSeq(s, start, start + Len(p) - 1) = p THEN start
    ELSE Find(s, p, start + 1)

\* p in s
Contains(s, p) == Find(s, p, 1) > 0

\* s.rfind(p), 1-based; 0 when absent
RECURSIVE RFindFrom(_, _, _)
RFindFrom(s, p, i) ==
    IF i < 1 THEN 0
    ELSE IF SubSeq(s, i, i + Len(p) - 1) = p THEN i
    ELSE RFindFrom(s, p, i - 1)
RFind(s, p) == RFindFrom(s, p, Len(s) - Len(p) + 1)

\* s[i:] with 1-based i
From(s, i) == SubSeq(s, i, Len(s))

\* a < b for Python strings: lexicographic by code point
RECURSIVE StrLess(_, _)
StrLess(a, b) ==
    IF b = <<>> THEN FALSE
    ELSE IF a = <<>> THEN TRUE
    ELSE IF a[1] = b[1] THEN StrLess(Tail(a), Tail(b))
    ELSE Ord(a[1]) < Ord(b[1])

\* sorted(list(S)) for a set of strings
RECURSIVE Sorted(_)
Sorted(S) ==
    IF S = {} THEN <<>>
    ELSE LET m == CHOOSE x \in S : \A y \in S \ {x} : StrLess(x, y)
         IN  <<m>> \o Sorted(S \ {m})

\* sep.join(parts)
RECURSIVE Join(_, _)
Join(sep, parts) ==
    IF parts = <<>> THEN <<>>
    ELSE IF Len(parts) = 1 THEN parts[1]
    ELSE parts[1] \o sep \o Join(sep, Tail(parts))

\* s.split(sep) for a one-character separator
RECURSIVE Split(_, _)
Split(s, sep) ==
    LET i == Find(s, <<sep>>, 1)
    IN  IF i = 0 THEN <<s>>
        ELSE <<SubSeq(s, 1, i - 1)>> \o Split(From(s, i + 1), sep)

\* str.isspace() on one character (the whitespace of the model's alphabet)
IsSpace(c) == c \in {" ", "\n", "\t", "\r", "NBSP"}

\* s.strip()
RECURSIVE LStrip(_)
LStrip(s) == IF s # <<>> /\ IsSpace(s[1]) THEN LStrip(Tail(s)) ELSE s
RECURSIVE RStrip(_)
RStrip(s) ==
    IF s # <<>> /\ IsSpace(s[Len(s)]) THEN RStrip(SubSeq(s, 1, Len(s) - 1)) ELSE s
Strip(s) == LStrip(RStrip(s))

-----------------------------------------------------------------------------
(* urllib.parse, as the scraper uses it *)

SchemeChars(c) == IsAlpha(c) \/ IsDigit(c) \/ c \in {"+", "-", "."}

uses_relative == {<<>>, <<"f","t","p">>, <<"h","t","t","p">>, <<"h","t","t","p","s">>,
                  <<"f","i","l","e">>}
uses_netloc == uses_relative
uses_params == {<<>>, <<"f","t","p">>, <<"h","t","t","p">>, <<"h","t","t","p","s">>}

\* The position of the first of "/", "?", "#" at or after start; Len+1 when none.
RECURSIVE splitnetloc_delim(_, _)
splitnetloc_delim(url, start) ==
    IF start > Len(url) \/ url[start] \in {"/", "?", "#"} THEN start
    ELSE splitnetloc_delim(url, start + 1)

\* _splitparams(url): <<path, params>>
splitparams_at(url, i) ==
    IF i = 0 THEN <<url, <<>>>> ELSE <<SubSeq(url, 1, i - 1), From(url, i + 1)>>
splitparams_from(url, slash) ==
    splitparams_at(url, IF slash > 0 THEN Find(url, <<";">>, slash)
                        ELSE Find(url, <<";">>, 1))
splitparams(url) == splitparams_from(url, RFind(url, <<"/">>))

\* urlsplit, step by step; r.rest is what is still to be split
split_scheme(url, default_scheme, colon) ==
    IF /\ colon > 1
       /\ IsAlpha(url[1])
       /\ \A k \in 1..(colon - 1) : SchemeChars(url[k])
    THEN [scheme |-> Lower(SubSeq(url, 1, colon - 1)), rest |-> From(url, colon + 1)]
    ELSE [scheme |-> default_scheme, rest |-> url]

split_netloc_at(r, delim) ==
    [scheme |-> r.scheme, netloc |-> SubSeq(r.rest, 3, delim - 1),
     rest |-> From(r.rest, delim)]
split_netloc(r) ==
    IF StartsWith(r.rest, <<"/", "/">>)
    THEN split_netloc_at(r, splitnetloc_delim(r.rest, 3))
    ELSE [scheme |-> r.scheme, netloc |-> <<>>, rest |-> r.rest]

split_fragment_at(r, hash) ==
    IF hash > 0
    THEN [scheme |-> r.scheme, netloc |-> r.netloc, rest |-> SubSeq(r.rest, 1, hash - 1),
          fragment |-> From(r.rest, hash + 1)]
    ELSE [scheme |-> r.scheme, netloc |-> r.netloc, rest |-> r.rest, fragment |-> <<>>]
split_fragment(r) == split_fragment_at(r, Find(r.rest, <<"#">>, 1))

split_query_at(r, qm) ==
    IF qm > 0
    THEN [scheme |-> r.scheme, netloc |-> r.netloc, rest |-> SubSeq(r.rest, 1, qm - 1),
          query |-> From(r.rest, qm + 1), fragment |-> r.fragment]
    ELSE [scheme |-> r.scheme, netloc |-> r.netloc, rest |-> r.rest,
          query |-> <<>>, fragment |-> r.fragment]
split_query(r) == split_query_at(r, Find(r.rest, <<"?">>, 1))

with_params(r, pp) ==
    [scheme |-> r.scheme, netloc |-> r.netloc, path |-> pp[1], params |-> pp[2],
     query |-> r.query, fragment |-> r.fragment]
split_params(r) ==
    with_params(r, IF r.scheme \in uses_params /\ Contains(r.rest, <<";">>)
                   THEN splitparams(r.rest) ELSE <<r.rest, <<>>>>)

\* urlparse(url, scheme): the six components
urlparse(url, default_scheme) ==
    split_params(split_query(split_fragment(split_netloc(
        split_scheme(url, default_scheme, Find(url, <<":">>, 1))))))

\* urlunparse((scheme, netloc, path, params, query, fragment))
unsplit_netloc(scheme, netloc, url) ==
    IF netloc # <<>>
       \/ (scheme # <<>> /\ scheme \in uses_netloc /\ ~StartsWith(url, <<"/", "/">>))
    THEN <<"/", "/">> \o netloc
         \o (IF url # <<>> /\ url[1] # "/" THEN <<"/">> \o url ELSE url)
    ELSE url
urlunparse(scheme, netloc, path, params, query, fragment) ==
    (IF scheme # <<>> THEN scheme \o <<":">> ELSE <<>>)
    \o unsplit_netloc(scheme, netloc,
                      IF params # <<>> THEN path \o <<";">> \o params ELSE path)
    \o (IF query # <<>> THEN <<"?">> \o query ELSE <<>>)
    \o (IF fragment # <<>> THEN <<"#">> \o fragment ELSE <<>>)

\* The dot-segment loop of urljoin
RECURSIVE resolve_segments(_, _)
resolve_segments(segments, resolved_path) ==
    IF segments = <<>> THEN resolved_path
    ELSE LET seg == segments[1]
         IN  IF seg = <<".", ".">>
             THEN resolve_segments(Tail(segments),
                      IF resolved_path = <<>> THEN <<>>
                      ELSE SubSeq(resolved_path, 1, Len(resolved_path) - 1))
             ELSE IF seg = <<".">>
             THEN resolve_segments(Tail(segments), resolved_path)
             ELSE resolve_segments(Tail(segments), Append(resolved_path, seg))

\* segments[1:-1] = filter(None, segments[1:-1])
filter_inner(segments) ==
    IF Len(segments) <= 2 THEN segments
    ELSE <<segments[1]>>
         \o SelectSeq(SubSeq(segments, 2, Len(segments) - 1), LAMBDA x : x # <<>>)
         \o <<segments[Len(segments)]>>

\* base_parts: bpath.split('/') without a last item that is no directory
base_parts(bp) == IF bp[Len(bp)] # <<>> THEN SubSeq(bp, 1, Len(bp) - 1) ELSE bp

\* the resolved path of the segments
resolved_path(segments) ==
    Join(<<"/">>,
         resolve_segments(segments, <<>>)
         \o (IF segments[Len(segments)] \in {<<".">>, <<".", ".">>} THEN <<<<>>>> ELSE <<>>))

or_root(path) == IF path = <<>> THEN <<"/">> ELSE path

\* urljoin once both urls are parsed
urljoin_parsed(url, b, u) ==
    IF u.scheme # b.scheme \/ u.scheme \notin uses_relative THEN url
    ELSE IF u.scheme \in uses_netloc /\ u.netloc # <<>>
    THEN urlunparse(u.scheme, u.netloc, u.path, u.params, u.query, u.fragment)
    ELSE IF u.path = <<>> /\ u.params = <<>>
    THEN urlunparse(u.scheme, IF u.scheme \in uses_netloc THEN b.netloc ELSE u.netloc,
                    b.path, b.params,
                    IF u.query = <<>> THEN b.query ELSE u.query, u.fragment)
    ELSE urlunparse(u.scheme, IF u.scheme \in uses_netloc THEN b.netloc ELSE u.netloc,
                    or_root(resolved_path(
                        IF u.path # <<>> /\ u.path[1] = "/"
                        THEN Split(u.path, "/")
                        ELSE filter_inner(base_parts(Split(b.path, "/"))
                                          \o Split(u.path, "/")))),
                    u.params, u.query, u.fragment)

urljoin_base(url, b) == urljoin_parsed(url, b, urlparse(url, b.scheme))

\* urljoin(base, url)
urljoin(base, url) ==
    IF base = <<>> THEN url
    ELSE IF url = <<>> THEN base
    ELSE urljoin_base(url, urlparse(base, <<>>))

-----------------------------------------------------------------------------
(* PatternMatcher (backend/webchecker/patterns.py) *)

\* Optional[str]: None, or a string
None == [is_none |-> TRUE, str |-> <<>>]
Some(s) == [is_none |-> FALSE, str |-> s]
\* Python truthiness of an Optional[str]: None and "" are falsy
Truthy(x) == ~x.is_none /\ x.str # <<>>

\* the source of the fixed email-mode pattern (patterns.py:25)
EmailPatternSource ==
    <<"\\","b","[","A","-","Z","a","-","z","0","-","9",".","_","%","+","-","]","+","@",
      "[","A","-","Z","a","-","z","0","-","9",".","-","]","+","\\",".",
      "[","A","-","Z","|","a","-","z","]","{","2",",","}","\\","b">>

\* re.escape(pattern): a backslash before every special character
ReSpecial == {"(", ")", "[", "]", "{", "}", "?", "*", "+", "-", "|", "^", "$", "\\",
              ".", "&", "~", "#", " ", "\t", "\n", "\r"}
RECURSIVE re_escape(_)
re_escape(s) ==
    IF s = <<>> THEN <<>>
    ELSE (IF s[1] \in ReSpecial THEN <<"\\", s[1]>> ELSE <<s[1]>>) \o re_escape(Tail(s))

ValueError == [error |-> "ValueError"]

\* PatternMatcher.__init__: the constructed object, or the error raised.
\* regex.kind tells which pattern was compiled; a custom pattern is compiled
\* with IGNORECASE, a literal one without.
\* a constructor that tests pattern ahead of custom_pattern
PatternMatcher_init_pattern_first(pattern, custom_pattern, em) ==
    IF em
    THEN [error |-> "", email_mode |-> em, pattern |-> EmailPatternSource,
          regex |-> [kind |-> "email", lit |-> <<>>, ignorecase |-> TRUE]]
    ELSE IF Truthy(pattern)
    THEN [error |-> "", email_mode |-> em, pattern |-> re_escape(pattern.str),
          regex |-> [kind |-> "literal", lit |-> pattern.str, ignorecase |-> FALSE]]
    ELSE IF Truthy(custom_pattern)
    THEN [error |-> "", email_mode |-> em, pattern |-> custom_pattern.str,
          regex |-> [kind |-> "custom", lit |-> custom_pattern.str, ignorecase |-> TRUE]]
    ELSE ValueError

PatternMatcher_init(pattern, custom_pattern, em) ==
    IF em
    THEN [error |-> "", email_mode |-> em, pattern |-> EmailPatternSource,
          regex |-> [kind |-> "email", lit |-> <<>>, ignorecase |-> TRUE]]
    ELSE IF Truthy(custom_pattern)
    THEN [error |-> "", email_mode |-> em, pattern |-> custom_pattern.str,
          regex |-> [kind |-> "custom", lit |-> custom_pattern.str, ignorecase |-> TRUE]]
    ELSE IF Truthy(pattern)
    THEN [error |-> "", email_mode |-> em, pattern |-> re_escape(pattern.str),
          regex |-> [kind |-> "literal", lit |-> pattern.str, ignorecase |-> FALSE]]
    ELSE ValueError

\* ---- regex.finditer(text): the spans <<first, last>> (1-based, inclusive)

\* \w and \b of the re module
IsWord(c) == IsAlpha(c) \/ IsDigit(c) \/ c = "_"
WordBoundary(text, i) ==
    (i > 1 /\ IsWord(text[i - 1])) # (i <= Len(text) /\ IsWord(text[i]))

\* the length of the longest run of characters satisfying In, from position i
RECURSIVE RunLen(_, _, _)
RunLen(text, i, class) ==
    IF i <= Len(text) /\ text[i] \in class THEN 1 + RunLen(text, i + 1, class) ELSE 0

\* the three character classes of the email pattern
EmailLocalChar == AlnumChars \cup {".", "_", "%", "+", "-"}
EmailDomainChar == AlnumChars \cup {".", "-"}
EmailTldChar == AlphaChars \cup {"|"}

Max(S) == CHOOSE x \in S : \A y \in S : x >= y

\* The email pattern tried at position p: the last index of the match the
\* backtracking engine returns (longest domain first, then longest final
\* label), or 0 when there is none.
\* the lengths m of a final label starting at t that end at a word boundary
tld_ends(text, t) ==
    {m \in 2..RunLen(text, t, EmailTldChar) : WordBoundary(text, t + m)}
\* the domain lengths k, out of a run of R domain characters from a, that
\* are followed by "." and a final label
domain_splits(text, a, R) ==
    {k \in 1..(R - 1) : text[a + k] = "." /\ tld_ends(text, a + k + 1) # {}}
email_end(text, a, k) == a + k + Max(tld_ends(text, a + k + 1))
email_domain(text, a, ks) == IF ks = {} THEN 0 ELSE email_end(text, a, Max(ks))
email_local(text, p, n) ==
    IF n >= 1 /\ p + n <= Len(text) /\ text[p + n] = "@"
    THEN email_domain(text, p + n + 1,
             domain_splits(text, p + n + 1, RunLen(text, p + n + 1, EmailDomainChar)))
    ELSE 0
email_match_at(text, p) ==
    IF WordBoundary(text, p) THEN email_local(text, p, RunLen(text, p, EmailLocalChar))
    ELSE 0

\* a literal (escaped, or metacharacter-free custom) pattern tried at p
literal_match_to(text, lit, ignorecase, p, e) ==
    IF e <= Len(text)
       /\ (IF ignorecase THEN Lower(SubSeq(text, p, e)) = Lower(lit)
                         ELSE SubSeq(text, p, e) = lit)
    THEN e ELSE 0
literal_match_at(text, lit, ignorecase, p) ==
    literal_match_to(text, lit, ignorecase, p, p + Len(lit) - 1)

match_at(regex, text, p) ==
    IF regex.kind = "email" THEN email_match_at(text, p)
    ELSE literal_match_at(text, regex.lit, regex.ignorecase, p)

RECURSIVE finditer_from(_, _, _)
\* a scan that resumes one character after the start of a match
finditer_step_overlapping(regex, text, p, e) ==
    IF e = 0 THEN finditer_from(regex, text, p + 1)
    ELSE <<<<p, e>>>> \o finditer_from(regex, text, p + 1)
finditer_step(regex, text, p, e) ==
    IF e = 0 THEN finditer_from(regex, text, p + 1)
    ELSE <<<<p, e>>>> \o finditer_from(regex, text, e + 1)
finditer_from(regex, text, p) ==
    IF p > Len(text) THEN <<>>
    ELSE finditer_step(regex, text, p, match_at(regex, text, p))

finditer(regex, text) == finditer_from(regex, text, 1)


\* ---- cleaning of an extracted word

\* s.rstrip(chars)
RECURSIVE RStripChars(_, _)
RStripChars(s, chars) ==
    IF s # <<>> /\ s[Len(s)] \in chars
    THEN RStripChars(SubSeq(s, 1, Len(s) - 1), chars) ELSE s

\* s.replace(old, new)
RECURSIVE Replace(_, _, _)
replace_at(s, old, new, i) ==
    IF i = 0 THEN s
    ELSE SubSeq(s, 1, i - 1) \o new \o Replace(From(s, i + Len(old)), old, new)
Replace(s, old, new) == replace_at(s, old, new, Find(s, old, 1))

\* PatternMatcher._clean_trailing_punctuation
clean_trailing_punctuation(word) ==
    IF Contains(word, <<"@">>) /\ Contains(Split(word, "@")[2], <<".">>)
    THEN RStripChars(word, {",", ";", ":", "!", "?"})
    ELSE RStripChars(word, {".", ",", ";", ":", "!", "?"})

\* re.sub(r'<[^>]+>', '', word)
RECURSIVE sub_tags(_)
sub_tags_at(s, j) ==
    IF j >= 3 THEN sub_tags(From(s, j + 1)) ELSE <<s[1]>> \o sub_tags(Tail(s))
sub_tags(s) ==
    IF s = <<>> THEN <<>>
    ELSE sub_tags_at(s, IF s[1] = "<" THEN Find(s, <<">">>, 2) ELSE 0)

\* re.sub(r'[\u200B-\u200D\uFEFF]', '', word)
sub_invisible(s) == SelectSeq(s, LAMBDA c : c \notin {"ZWSP", "ZWNJ", "ZWJ", "BOM"})

\* the six word.replace(entity, char) calls, in the order of the code
replace_entities(s) ==
    Replace(Replace(Replace(Replace(Replace(Replace(s,
        <<"&","n","b","s","p",";">>, <<" ">>),
        <<"&","a","m","p",";">>, <<"&">>),
        <<"&","l","t",";">>, <<"<">>),
        <<"&","g","t",";">>, <<">">>),
        <<"&","q","u","o","t",";">>, <<"\"">>),
        <<"&","a","p","o","s",";">>, <<"'">>)

FramerOpen == <<"<","!","-","-","$","-","-",">">>
FramerClose == <<"<","!","-","-","/","$","-","-",">">>
DataFramer == <<"d","a","t","a","-","f","r","a","m","e","r","-">>
FramerDash == <<"f","r","a","m","e","r","-">>

\* re.sub(r'<!--\$-->.*?<!--/\$-->', '', word, flags=re.DOTALL)
RECURSIVE sub_framer_comment(_)
sub_framer_comment_at(s, i, j) ==
    IF j = 0 THEN s
    ELSE SubSeq(s, 1, i - 1) \o sub_framer_comment(From(s, j + Len(FramerClose)))
sub_framer_comment_from(s, i) ==
    sub_framer_comment_at(s, i,
        IF i = 0 THEN 0 ELSE Find(s, FramerClose, i + Len(FramerOpen)))
sub_framer_comment(s) == sub_framer_comment_from(s, Find(s, FramerOpen, 1))

\* re.sub(r'data-framer-[^=]*="[^"]*"', '', word)
RECURSIVE sub_data_framer(_)
sub_data_framer_at(s, q) ==
    IF q > 0 THEN sub_data_framer(From(s, q + 1))
    ELSE <<s[1]>> \o sub_data_framer(Tail(s))
sub_data_framer_eq(s, eq) ==
    sub_data_framer_at(s, IF eq > 0 /\ eq < Len(s) /\ s[eq + 1] = "\""
                          THEN Find(s, <<"\"">>, eq + 2) ELSE 0)
sub_data_framer(s) ==
    IF s = <<>> THEN <<>>
    ELSE sub_data_framer_eq(s, IF StartsWith(s, DataFramer)
                               THEN Find(s, <<"=">>, Len(DataFramer) + 1) ELSE 0)

\* re.sub(r'framer-[a-zA-Z0-9-]+', '', word)
RECURSIVE sub_framer_class(_)
sub_framer_class_at(s, n) ==
    IF n >= 1 THEN sub_framer_class(From(s, Len(FramerDash) + n + 1))
    ELSE <<s[1]>> \o sub_framer_class(Tail(s))
sub_framer_class(s) ==
    IF s = <<>> THEN <<>>
    ELSE sub_framer_class_at(s, IF StartsWith(s, FramerDash)
                                THEN RunLen(s, Len(FramerDash) + 1, AlnumChars \cup {"-"})
                                ELSE 0)

\* re.sub(r'\s+', ' ', word)
RECURSIVE sub_whitespace(_)
sub_whitespace(s) ==
    IF s = <<>> THEN <<>>
    ELSE IF IsSpace(s[1])
    THEN <<" ">> \o sub_whitespace(From(s, 1 + RunLen(s, 1, {" ", "\n", "\t", "\r", "NBSP"})))
    ELSE <<s[1]>> \o sub_whitespace(Tail(s))

\* PatternMatcher._clean_html_artifacts
clean_html_artifacts(word) ==
    Strip(sub_whitespace(sub_framer_class(sub_data_framer(sub_framer_comment(
        replace_entities(sub_invisible(sub_tags(word))))))))

\* ---- find_matches

\* the boundary test of the two scanning loops (patterns.py:88-90)
IsBoundary(c) ==
    \/ IsSpace(c)
    \/ c \in {"\n", "\r", "\t"}
    \/ c \in {"(", ")", "[", "]", "{", "}", "<", ">", "\""}
    \/ OrdMap[c] < 32
    \/ c = "ZWJ"

\* the left scan: the smallest word_start reached from match_start
RECURSIVE scan_left(_, _)
scan_left(text, word_start) ==
    IF word_start > 1 /\ ~IsBoundary(text[word_start - 1])
    THEN scan_left(text, word_start - 1) ELSE word_start

\* the right scan: the last index of the word reached from match_end
RECURSIVE scan_right(_, _)
scan_right(text, word_end) ==
    IF word_end < Len(text) /\ ~IsBoundary(text[word_end + 1])
    THEN scan_right(text, word_end + 1) ELSE word_end

\* the tail of each loop body: strip, trailing punctuation, HTML artifacts
clean_word(word) == clean_html_artifacts(clean_trailing_punctuation(Strip(word)))

\* the loop over the matches, keeping the non-empty cleaned words
RECURSIVE collect_words(_)
keep_word(w, rest) == (IF w # <<>> THEN <<w>> ELSE <<>>) \o collect_words(rest)
collect_words(words) ==
    IF words = <<>> THEN <<>> ELSE keep_word(clean_word(words[1]), Tail(words))

\* the word each match is extended to, by the flags
context_words(text, spans, eb, ea) ==
    [i \in 1..Len(spans) |->
        IF eb THEN SubSeq(text, scan_left(text, spans[i][1]), spans[i][2])
        ELSE IF ea THEN SubSeq(text, spans[i][1], scan_right(text, spans[i][2]))
        ELSE SubSeq(text, spans[i][1], spans[i][2])]
context_words_both(text, spans) ==
    [i \in 1..Len(spans) |->
        SubSeq(text, scan_left(text, spans[i][1]), scan_right(text, spans[i][2]))]
\* match.group() of every match
match_groups(text, spans) == [i \in 1..Len(spans) |-> SubSeq(text, spans[i][1], spans[i][2])]

\* PatternMatcher._find_matches_with_context
find_matches_with_context(m, text, eb, ea) ==
    collect_words(context_words(text, finditer(m.regex, text), eb, ea))

\* PatternMatcher._find_matches_with_context_both
find_matches_with_context_both(m, text) ==
    collect_words(context_words_both(text, finditer(m.regex, text)))

\* PatternMatcher.find_matches.  The extract_after-only call passes
\* extract_after=True and leaves extract_before at its default, True.
find_matches(m, text, eb, ea) ==
    IF eb /\ ea THEN find_matches_with_context_both(m, text)
    ELSE IF eb THEN find_matches_with_context(m, text, TRUE, FALSE)
    ELSE IF ea THEN find_matches_with_context(m, text, TRUE, TRUE)
    ELSE match_groups(text, finditer(m.regex, text))

\* ---- email validation

\* re.match(r'^[A-Za-z0-9._%+-]+@[A-Za-z0-9.-]+\.[A-Z|a-z]{2,}$', email):
\* "$" matches at the end and also just before a final newline.
at_end(email, i) == i = Len(email) + 1 \/ (i = Len(email) /\ email[i] = "\n")
basic_format_domain(email, a, R) ==
    \E k \in 1..(R - 1) :
        /\ email[a + k] = "."
        /\ \E t \in 2..RunLen(email, a + k + 1, EmailTldChar) : at_end(email, a + k + 1 + t)
basic_format_local(email, n) ==
    /\ n >= 1
    /\ n < Len(email)
    /\ email[n + 1] = "@"
    /\ basic_format_domain(email, n + 2, RunLen(email, n + 2, EmailDomainChar))
basic_format(email) == basic_format_local(email, RunLen(email, 1, EmailLocalChar))

\* the re.search of the seven invalid patterns; body is the email without a
\* final newline, where "$" also matches
\* the list of invalid patterns without the one for two dots in a row
invalid_pattern_in_no_double_dot(email, body) ==
    \/ Contains(email, <<"@", ".">>)
    \/ Contains(email, <<".", "@">>)
    \/ StartsWith(email, <<".">>)
    \/ EndsWith(email, <<".">>) \/ EndsWith(body, <<".">>)
    \/ EndsWith(email, <<"@">>) \/ EndsWith(body, <<"@">>)
    \/ StartsWith(email, <<"@">>)
invalid_pattern_in(email, body) ==
    \/ Contains(email, <<".", ".">>)
    \/ Contains(email, <<"@", ".">>)
    \/ Contains(email, <<".", "@">>)
    \/ StartsWith(email, <<".">>)
    \/ EndsWith(email, <<".">>) \/ EndsWith(body, <<".">>)
    \/ EndsWith(email, <<"@">>) \/ EndsWith(body, <<"@">>)
    \/ StartsWith(email, <<"@">>)
invalid_pattern(email) ==
    invalid_pattern_in(email,
        IF email # <<>> /\ email[Len(email)] = "\n"
        THEN SubSeq(email, 1, Len(email) - 1) ELSE email)

\* the checks on the parts of email.split('@') (patterns.py:326-349)
tld_check(domain_parts) ==
    IF Len(domain_parts) < 2 THEN FALSE
    ELSE IF Len(domain_parts[Len(domain_parts)]) < 2 THEN FALSE
    ELSE TRUE
parts_check(parts) ==
    IF Len(parts) # 2 THEN FALSE
    ELSE IF Len(parts[1]) > 64 \/ Len(parts[1]) = 0 THEN FALSE
    ELSE IF Len(parts[2]) > 253 \/ Len(parts[2]) = 0 THEN FALSE
    ELSE tld_check(Split(parts[2], "."))

\* PatternMatcher.is_valid_email
is_valid_email(email) ==
    IF ~basic_format(email) THEN FALSE
    ELSE IF invalid_pattern(email) THEN FALSE
    ELSE parts_check(Split(email, "@"))

\* the loop of find_emails_with_pages over the raw matches
RECURSIVE valid_pairs(_, _)
\* a loop that appends every cleaned match, valid or not
keep_valid_unchecked(email, page_url, rest) ==
    <<<<email, page_url>>>> \o valid_pairs(rest, page_url)
keep_valid(email, page_url, rest) ==
    (IF is_valid_email(email) THEN <<<<email, page_url>>>> ELSE <<>>)
    \o valid_pairs(rest, page_url)
valid_pairs(raw, page_url) ==
    IF raw = <<>> THEN <<>>
    ELSE keep_valid(clean_html_artifacts(Strip(raw[1])), page_url, Tail(raw))

\* PatternMatcher.find_emails_with_pages: the pairs, or the error raised
find_emails_with_pages(m, text, page_url) ==
    IF ~m.email_mode THEN ValueError
    ELSE [error |-> "", pairs |-> valid_pairs(match_groups(text, finditer(m.regex, text)), page_url)]

-----------------------------------------------------------------------------
(* WebScraper (backend/webchecker/scraper.py): pure helpers *)

\* self.exclude_extensions, the default list (scraper.py:51-57)
exclude_extensions ==
    <<<<".","p","d","f">>, <<".","d","o","c">>, <<".","d","o","c","x">>,
      <<".","x","l","s">>, <<".","x","l","s","x">>, <<".","p","p","t">>,
      <<".","p","p","t","x">>, <<".","z","i","p">>, <<".","r","a","r">>,
      <<".","t","a","r">>, <<".","g","z">>, <<".","7","z">>, <<".","j","p","g">>,
      <<".","j","p","e","g">>, <<".","p","n","g">>, <<".","g","i","f">>,
      <<".","b","m","p">>, <<".","s","v","g">>, <<".","i","c","o">>,
      <<".","m","p","3">>, <<".","m","p","4">>, <<".","a","v","i">>,
      <<".","m","o","v">>, <<".","w","m","v">>, <<".","e","x","e">>,
      <<".","d","m","g">>, <<".","p","k","g">>, <<".","d","e","b">>,
      <<".","r","p","m">>>>

binary_indicators ==
    <<<<"/","d","o","w","n","l","o","a","d","/">>, <<"/","f","i","l","e","s","/">>,
      <<"/","a","s","s","e","t","s","/">>, <<"/","m","e","d","i","a","/">>,
      <<"b","l","o","b",":">>, <<"d","a","t","a",":">>,
      <<"j","a","v","a","s","c","r","i","p","t",":">>>>

\* WebScraper._should_exclude_url
excluded_path(path) ==
    \E i \in 1..Len(exclude_extensions) : EndsWith(path, exclude_extensions[i])
excluded_indicator(url_lower) ==
    \E i \in 1..Len(binary_indicators) : Contains(url_lower, binary_indicators[i])
should_exclude_url(url) ==
    \/ excluded_path(Lower(urlparse(url, <<>>).path))
    \/ excluded_indicator(Lower(url))

\* the test without the exclusion predicate
link_accepted_no_exclusion(absolute_url, base_domain) ==
    urlparse(absolute_url, <<>>).netloc = base_domain

\* the test of _extract_links on one resolved link (scraper.py:200-201)
link_accepted(absolute_url, base_domain) ==
    /\ urlparse(absolute_url, <<>>).netloc = base_domain
    /\ ~should_exclude_url(absolute_url)

\* WebScraper._extract_links on a fetched page: hrefs are the href attributes
\* of its anchors, in document order
RECURSIVE extract_links(_, _, _)
keep_link(absolute_url, domain, rest) ==
    (IF link_accepted(absolute_url, domain) THEN <<absolute_url>> ELSE <<>>) \o rest
extract_links(hrefs, url, domain) ==
    IF hrefs = <<>> THEN <<>>
    ELSE keep_link(urljoin(url, hrefs[1]), domain, extract_links(Tail(hrefs), url, domain))

\* WebScraper._parse_robots_txt, over the lines of content.split('\n')
RECURSIVE parse_robots_lines(_)
robots_line(line) ==
    IF StartsWith(Lower(line), <<"s","i","t","e","m","a","p",":">>)
    THEN <<Strip(From(line, Find(line, <<":">>, 1) + 1))>> ELSE <<>>
parse_robots_lines(lines) ==
    IF lines = <<>> THEN <<>>
    ELSE robots_line(lines[1]) \o parse_robots_lines(Tail(lines))

parse_robots_txt(content) == parse_robots_lines(Split(content, "\n"))

\* the three locations of _discover_sitemap_urls
sitemap_locations(base_url) ==
    <<urljoin(base_url, <<"/","s","i","t","e","m","a","p",".","x","m","l">>),
      urljoin(base_url, <<"/","s","i","t","e","m","a","p","_","i","n","d","e","x",".","x","m","l">>),
      urljoin(base_url, <<"/","r","o","b","o","t","s",".","t","x","t">>)>>

\* what one location contributes: nothing when its fetch raised
\* RequestException; resp.locs is the <url><loc> list of the document,
\* resp.text the body
sitemap_source(location, resp) ==
    IF ~resp.ok THEN <<>>
    ELSE IF EndsWith(location, <<"r","o","b","o","t","s",".","t","x","t">>)
    THEN parse_robots_txt(resp.text)
    ELSE resp.locs

\* a discovery that gives up at the first source whose fetch failed
sitemap_sources_stop_at_failure(loc, resps) ==
    IF ~resps[1].ok THEN <<>>
    ELSE sitemap_source(loc[1], resps[1])
         \o (IF ~resps[2].ok THEN <<>>
             ELSE sitemap_source(loc[2], resps[2]) \o sitemap_source(loc[3], resps[3]))

\* WebScraper._discover_sitemap_urls, given the three responses
sitemap_sources(loc, resps) ==
    sitemap_source(loc[1], resps[1]) \o sitemap_source(loc[2], resps[2])
    \o sitemap_source(loc[3], resps[3])
discover_sitemap_urls(base_url, resps) == sitemap_sources(sitemap_locations(base_url), resps)

\* the queue-building loop (scraper.py:115-117): entries at depth 0 for the
\* sitemap urls not yet visited
RECURSIVE sitemap_entries(_, _)
sitemap_entries(urls, visited) ==
    IF urls = <<>> THEN <<>>
    ELSE (IF urls[1] \notin visited THEN <<[url |-> urls[1], depth |-> 0]>> ELSE <<>>)
         \o sitemap_entries(Tail(urls), visited)

\* the enqueueing loop (scraper.py:141-143)
RECURSIVE link_entries(_, _, _)
link_entries(links, visited, depth) ==
    IF links = <<>> THEN <<>>
    ELSE (IF links[1] \notin visited THEN <<[url |-> links[1], depth |-> depth + 1]>>
          ELSE <<>>)
         \o link_entries(Tail(links), visited, depth)

\* lines that carry the seed instead of the page the match came from
page_lines_seed(url, matches) ==
    [i \in 1..Len(matches) |-> start_url \o <<":", " ">> \o matches[i]]

\* f"{url}: {match}" for every match (scraper.py:176-178)
page_lines(url, matches) ==
    [i \in 1..Len(matches) |-> url \o <<":", " ">> \o matches[i]]

\* the mailto: loop of _scrape_page_email_mode (scraper.py:372-380)
RECURSIVE mailto_emails(_, _)
mailto_email(href, email, url) ==
    IF StartsWith(href, <<"m","a","i","l","t","o",":">>) /\ is_valid_email(email)
    THEN <<<<email, url>>>> ELSE <<>>
mailto_emails(hrefs, url) ==
    IF hrefs = <<>> THEN <<>>
    ELSE mailto_email(hrefs[1], Split(Split(From(hrefs[1], 8), "?")[1], "#")[1], url)
         \o mailto_emails(Tail(hrefs), url)

\* the deduplication loop (scraper.py:386-393): first occurrence wins
RECURSIVE unique_emails(_, _)
unique_emails(all_emails, seen_emails) ==
    IF all_emails = <<>> THEN <<>>
    ELSE IF all_emails[1][1] \in seen_emails
    THEN unique_emails(Tail(all_emails), seen_emails)
    ELSE <<all_emails[1]>>
         \o unique_emails(Tail(all_emails), seen_emails \cup {all_emails[1][1]})

\* a page whose mailto: addresses come ahead of those of its text
all_page_emails_mailto_first(text_emails, url, hrefs) ==
    IF text_emails.error # "" THEN ValueError
    ELSE [error |-> "",
          pairs |-> unique_emails(mailto_emails(hrefs, url) \o text_emails.pairs, {})]

\* WebScraper._scrape_page_email_mode on a fetched page: the pairs, or the
\* error find_emails_with_pages raised
all_page_emails(text_emails, url, hrefs) ==
    IF text_emails.error # "" THEN ValueError
    ELSE [error |-> "",
          pairs |-> unique_emails(text_emails.pairs \o mailto_emails(hrefs, url), {})]
scrape_page_email_mode(url, m, text, hrefs) ==
    all_page_emails(find_emails_with_pages(m, text, url), url, hrefs)

\* email_groups[email].add(page_url) on a dict kept in insertion order
RECURSIVE group_emails(_, _)
\* a grouping that opens a new group for every pair
add_page_always_new(groups, email, page_url) ==
    Append(groups, [email |-> email, pages |-> {page_url}])

add_page(groups, email, page_url) ==
    IF \A i \in 1..Len(groups) : groups[i].email # email
    THEN Append(groups, [email |-> email, pages |-> {page_url}])
    ELSE [i \in 1..Len(groups) |->
             IF groups[i].email = email
             THEN [groups[i] EXCEPT !.pages = @ \cup {page_url}]
             ELSE groups[i]]
group_emails(groups, pairs) ==
    IF pairs = <<>> THEN groups
    ELSE group_emails(add_page(groups, pairs[1][1], pairs[1][2]), Tail(pairs))

\* the formatting loop (scraper.py:349-352)
format_groups(groups) ==
    [i \in 1..Len(groups) |->
        groups[i].email \o <<":", " ">> \o Join(<<",", " ">>, Sorted(groups[i].pages))]


-----------------------------------------------------------------------------
(* The environment of a crawl: the site, as the fetches see it *)

SeedUrl == <<"h","t","t","p",":","/","/","a","/">>

\* the anchors a page may carry, as the lists of their href attributes: no
\* anchor; two links of the site, one of them under another scheme; the
\* seed itself and the same link twice; another host and a subdomain; an
\* excluded extension, a binary indicator and a script link
HrefLists ==
    {<<>>,
     <<<<"/","p">>, <<"h","t","t","p","s",":","/","/","a","/","q">>>>,
     <<<<"h","t","t","p",":","/","/","a","/">>, <<"/","p">>, <<"/","p">>>>,
     <<<<"h","t","t","p",":","/","/","b","/">>, <<"h","t","t","p",":","/","/","w",".","a","/">>>>,
     <<<<"/","x",".","P","D","F">>, <<"/","f","i","l","e","s","/","z">>,
       <<"j","a","v","a","s","c","r","i","p","t",":","v">>>>}

\* page texts: one address; two addresses with punctuation around them
Texts ==
    {<<"a","@","b",".","c","o">>,
     <<"c","@","d",".","i","o",","," ","a","@","b",".","c","o",".">>}

\* anchors of a page read in email mode
MailtoHrefLists ==
    {<<>>,
     <<<<"m","a","i","l","t","o",":","e","@","f",".">>,
       <<"m","a","i","l","t","o",":","a","@","b",".","c","o","?","s","=","1">>,
       <<"m","a","i","l","t","o",":","e","@","f",".","u","k">>>>}

\* the answer to the GET of _scrape_page / _scrape_page_email_mode:
\* RequestException (caught inside), any other exception (parser failure),
\* or a page
PageResponses(em) ==
    {[outcome |-> "RequestException", text |-> <<>>, hrefs |-> <<>>],
     [outcome |-> "Exception", text |-> <<>>, hrefs |-> <<>>]}
    \cup {[outcome |-> "ok", text |-> t, hrefs |-> <<>>] : t \in Texts}
    \cup (IF em
          THEN {[outcome |-> "ok", text |-> <<"a","@","b",".","c","o">>, hrefs |-> h] :
                   h \in MailtoHrefLists}
          ELSE {})

\* the answer to the second GET of the same url, in _extract_links
NoFetch == [outcome |-> "none", hrefs |-> <<>>]
LinkResponses ==
    {[outcome |-> "RequestException", hrefs |-> <<>>],
     [outcome |-> "Exception", hrefs |-> <<>>]}
    \cup {[outcome |-> "ok", hrefs |-> h] : h \in HrefLists}

\* the answers of /sitemap.xml, /sitemap_index.xml and /robots.txt
Failed == [ok |-> FALSE, locs |-> <<>>, text |-> <<>>]
SitemapXml ==
    [ok |-> TRUE, text |-> <<>>, locs |-> <<<<"h","t","t","p",":","/","/","a","/","p">>>>]
SitemapIndexXml ==
    [ok |-> TRUE, text |-> <<>>,
     locs |-> <<<<"h","t","t","p",":","/","/","a","/">>, <<"h","t","t","p",":","/","/","b","/">>>>]
RobotsTxt ==
    [ok |-> TRUE, locs |-> <<>>,
     text |-> <<"A","l","l","o","w",":"," ","/","\n","s","i","t","e","m","a","p",
                ":","h","t","t","p","s",":","/","/","a","/","q","\n">>]
SitemapResponses ==
    {<<Failed, Failed, Failed>>, <<SitemapXml, Failed, Failed>>,
     <<Failed, SitemapIndexXml, Failed>>, <<SitemapXml, Failed, RobotsTxt>>}

\* the calls a caller makes: (pattern_matcher, extract_before, extract_after,
\* email_mode)
LiteralAt == PatternMatcher_init(Some(<<"@">>), None, FALSE)
EmailMatcher == PatternMatcher_init(None, None, TRUE)
\* the seeds of the calls after the first: the first seed again, a page of
\* the site
Seeds == {SeedUrl, <<"h","t","t","p",":","/","/","a","/","p">>}
Calls ==
    {[m |-> LiteralAt, flags |-> <<TRUE, FALSE>>, em |-> FALSE],
     [m |-> EmailMatcher, flags |-> <<FALSE, FALSE>>, em |-> TRUE],
     [m |-> LiteralAt, flags |-> <<FALSE, FALSE>>, em |-> TRUE]}

-----------------------------------------------------------------------------
(* WebScraper.scrape_site and _scrape_site_email_mode as a state machine *)

\* no PatternMatcher has been constructed
NoMatcher == [error |-> "none"]

NoStep == [kind |-> "none", url |-> <<>>, depth |-> 0, scrape |-> "none",
           slept |-> FALSE, links |-> "none", appended |-> <<>>, sitemaps |-> <<>>]

\* base_domain = urlparse(start_url).netloc
base_domain == urlparse(start_url, <<>>).netloc

\* the loop test with the budget compared by <=
loop_condition_off_by_one ==
    url_queue # <<>> /\ Cardinality(visited_urls) <= max_pages

\* while url_queue and len(self.visited_urls) < self.max_pages
loop_condition == url_queue # <<>> /\ Cardinality(visited_urls) < max_pages

\* the skip test without the visited check
skip_condition_depth_only(cur) == cur.depth > max_depth

\* if current_url in self.visited_urls or depth > self.max_depth: continue
skip_condition(cur) == cur.url \in visited_urls \/ cur.depth > max_depth

\* the depth test compared by <=
follow_links_off_by_one(depth) == depth <= max_depth

\* if depth < self.max_depth
follow_links(depth) == depth < max_depth

\* the sessions of the web front end, the thread identifiers a request
\* handler can run under, and the session ids they can make
Sessions == {1, 2}
ThreadIdents == {1, 2}
SessionIds == (0..MaxClock) \X ThreadIdents

\* a thread that has not been started
NoWorker ==
    [pc |-> "none", req |-> <<>>, session_id |-> <<>>, data |-> 0, progress_data |-> 0,
     url_queue |-> <<>>, visited_urls |-> {}, processed_pages |-> 0, results |-> <<>>]

web_vars == <<clock, active_sessions, session_data, workers, poll>>

\* no status request has been answered
NoPoll == [session_id |-> <<>>, code |-> 0, status |-> "", progress |-> 0, results |-> <<>>]

\* WebCheckerApp.__init__: no session yet
WebIdle ==
    /\ clock = 0
    /\ active_sessions = [id \in SessionIds |-> 0]
    /\ session_data = <<>>
    /\ workers = [s \in Sessions |-> NoWorker]
    /\ poll = NoPoll

\* WebScraper.__init__, and no call running
CrawlInit ==
    /\ max_pages \in 0..MaxPagesBound
    /\ max_depth \in (-1)..MaxDepthBound
    /\ follow_sitemap \in BOOLEAN
    /\ visited_urls = {}
    /\ pc = "idle"
    /\ start_url = <<>>
    /\ pattern_matcher = NoMatcher
    /\ extract_flags = <<FALSE, FALSE>>
    /\ email_mode = FALSE
    /\ url_queue = <<>>
    /\ results = <<>>
    /\ email_groups = <<>>
    /\ earlier_visited = {}
    /\ step = NoStep
    /\ fetch_log = <<>>
    /\ ctor_args = <<>>
    /\ matcher = NoMatcher
    /\ call = <<>>
    /\ ret = <<>>
    /\ WebIdle

matcher_vars == <<ctor_args, matcher, call, ret>>
config_vars == <<max_pages, max_depth, follow_sitemap>>
call_vars == <<start_url, pattern_matcher, extract_flags, email_mode, earlier_visited>>

\* an entry that starts every call with an empty visited set
scrape_site_entry_fresh_visited(seed) ==
    /\ start_url' = seed
    /\ \E c \in Calls :
          /\ pattern_matcher' = c.m
          /\ extract_flags' = c.flags
          /\ email_mode' = c.em
    /\ \E resps \in SitemapResponses :
          /\ follow_sitemap \/ resps = <<Failed, Failed, Failed>>
          /\ url_queue' =
                <<[url |-> seed, depth |-> 0]>>
                \o (IF follow_sitemap
                    THEN sitemap_entries(discover_sitemap_urls(seed, resps), {})
                    ELSE <<>>)
          /\ step' = [NoStep EXCEPT !.kind = "start",
                                    !.sitemaps = IF follow_sitemap THEN resps ELSE <<>>]
    /\ visited_urls' = {}
    /\ earlier_visited' = visited_urls
    /\ fetch_log' = <<>>
    /\ results' = <<>>
    /\ email_groups' = <<>>
    /\ pc' = "loop"
    /\ UNCHANGED <<config_vars, matcher_vars, web_vars>>

\* the entry of scrape_site / _scrape_site_email_mode up to the loop: the
\* queue holds the seed and, with follow_sitemap, the sitemap urls not yet
\* visited; self.visited_urls is not reset.  step.sitemaps holds the answers
\* to the three GETs of _discover_sitemap_urls, made only with follow_sitemap
scrape_site_call(seed, c) ==
    /\ start_url' = seed
    /\ pattern_matcher' = c.m
    /\ extract_flags' = c.flags
    /\ email_mode' = c.em
    /\ \E resps \in SitemapResponses :
          /\ follow_sitemap \/ resps = <<Failed, Failed, Failed>>
          /\ url_queue' =
                <<[url |-> seed, depth |-> 0]>>
                \o (IF follow_sitemap
                    THEN sitemap_entries(discover_sitemap_urls(seed, resps), visited_urls)
                    ELSE <<>>)
          /\ step' = [NoStep EXCEPT !.kind = "start",
                                    !.sitemaps = IF follow_sitemap THEN resps ELSE <<>>]
    /\ visited_urls' = visited_urls
    /\ earlier_visited' = visited_urls
    /\ fetch_log' = <<>>
    /\ results' = <<>>
    /\ email_groups' = <<>>
    /\ pc' = "loop"
    /\ UNCHANGED <<config_vars, matcher_vars, web_vars>>

\* a call with any of the argument lists callers pass
scrape_site_entry(seed) == \E c \in Calls : scrape_site_call(seed, c)

\* the first call on the instance
scrape_site_start ==
    /\ pc = "idle"
    /\ scrape_site_entry(SeedUrl)

\* a further call on the same instance, once the call before has returned
scrape_site_again ==
    /\ pc = "done"
    /\ \E seed \in Seeds : scrape_site_entry(seed)

\* an iteration that continues without having taken the entry off the queue
loop_skip_no_pop ==
    /\ pc = "loop"
    /\ loop_condition
    /\ skip_condition(Head(url_queue))
    /\ step' = [NoStep EXCEPT !.kind = "skip", !.url = Head(url_queue).url,
                              !.depth = Head(url_queue).depth]
    /\ UNCHANGED <<config_vars, call_vars, visited_urls, pc, results, email_groups,
                   fetch_log, matcher_vars, web_vars, url_queue>>

\* a skipped entry that is nevertheless added to the visited set
loop_skip_marks_visited ==
    /\ pc = "loop"
    /\ loop_condition
    /\ skip_condition(Head(url_queue))
    /\ url_queue' = Tail(url_queue)
    /\ visited_urls' = visited_urls \cup {Head(url_queue).url}
    /\ step' = [NoStep EXCEPT !.kind = "skip", !.url = Head(url_queue).url,
                              !.depth = Head(url_queue).depth]
    /\ UNCHANGED <<config_vars, call_vars, pc, results, email_groups,
                   fetch_log, matcher_vars, web_vars>>

\* one iteration that ends at "continue" (scraper.py:120-123 and 318-321)
loop_skip ==
    /\ pc = "loop"
    /\ loop_condition
    /\ skip_condition(Head(url_queue))
    /\ url_queue' = Tail(url_queue)
    /\ step' = [NoStep EXCEPT !.kind = "skip", !.url = Head(url_queue).url,
                              !.depth = Head(url_queue).depth]
    /\ UNCHANGED <<config_vars, call_vars, visited_urls, pc, results, email_groups,
                   fetch_log, matcher_vars, web_vars>>

\* a loop that puts the new links at the front of the queue
page_done_links_first(cur, outcome, found, links, appended, new_results, new_groups) ==
    /\ visited_urls' = visited_urls \cup {cur.url}
    /\ results' = new_results
    /\ email_groups' = new_groups
    /\ url_queue' = appended \o Tail(url_queue)
    /\ step' = [kind |-> "page", url |-> cur.url, depth |-> cur.depth,
                scrape |-> outcome, slept |-> outcome \in {"ok", "RequestException"},
                links |-> links, appended |-> appended, sitemaps |-> <<>>]
    /\ fetch_log' = Append(fetch_log, [url |-> cur.url, depth |-> cur.depth,
                                       scrape |-> outcome, found |-> found])

\* a page that is marked visited only when its scraping raised nothing
page_done_visited_on_success(cur, outcome, found, links, appended, new_results, new_groups) ==
    /\ visited_urls' = IF outcome = "ok" THEN visited_urls \cup {cur.url} ELSE visited_urls
    /\ results' = new_results
    /\ email_groups' = new_groups
    /\ url_queue' = Tail(url_queue) \o appended
    /\ step' = [kind |-> "page", url |-> cur.url, depth |-> cur.depth,
                scrape |-> outcome, slept |-> outcome \in {"ok", "RequestException"},
                links |-> links, appended |-> appended, sitemaps |-> <<>>]
    /\ fetch_log' = Append(fetch_log, [url |-> cur.url, depth |-> cur.depth,
                                       scrape |-> outcome, found |-> found])

\* what one processed page leaves behind: the url is visited, the matches
\* are kept, time.sleep(self.delay) is reached when the scraping of the
\* page raised nothing, the accepted links are enqueued
page_done(cur, outcome, found, links, appended, new_results, new_groups) ==
    /\ visited_urls' = visited_urls \cup {cur.url}
    /\ results' = new_results
    /\ email_groups' = new_groups
    /\ url_queue' = Tail(url_queue) \o appended
    /\ step' = [kind |-> "page", url |-> cur.url, depth |-> cur.depth,
                scrape |-> outcome, slept |-> outcome \in {"ok", "RequestException"},
                links |-> links, appended |-> appended, sitemaps |-> <<>>]
    /\ fetch_log' = Append(fetch_log, [url |-> cur.url, depth |-> cur.depth,
                                       scrape |-> outcome, found |-> found])

\* the entries the link loop appends after the second GET (scraper.py:139-143)
new_entries(cur, r2) ==
    IF r2.outcome = "ok"
    THEN link_entries(extract_links(r2.hrefs, cur.url, base_domain),
                      visited_urls \cup {cur.url}, cur.depth)
    ELSE <<>>

\* the rest of the try block once the page has been scraped: the second GET
\* happens when nothing was raised and depth < max_depth
page_links(cur, outcome, found, new_results, new_groups) ==
    \E r2 \in (IF outcome \in {"ok", "RequestException"} /\ follow_links(cur.depth)
               THEN LinkResponses ELSE {NoFetch}) :
        page_done(cur, outcome, found, r2.outcome, new_entries(cur, r2),
                  new_results, new_groups)

\* results.extend(page_results)
page_results(cur, outcome, found) ==
    page_links(cur, outcome, found, results \o page_lines(cur.url, found), email_groups)

\* one iteration of the loop of scrape_site that processes a page
\* (scraper.py:120-147)
scrape_site_page ==
    /\ pc = "loop"
    /\ ~email_mode
    /\ loop_condition
    /\ ~skip_condition(Head(url_queue))
    /\ \E r1 \in PageResponses(FALSE) :
          page_results(Head(url_queue), r1.outcome,
              IF r1.outcome = "ok"
              THEN find_matches(pattern_matcher, r1.text, extract_flags[1], extract_flags[2])
              ELSE <<>>)
    /\ UNCHANGED <<config_vars, call_vars, pc, matcher_vars, web_vars>>

\* a loop whose except clause lets the exception out: the call ends when a
\* page raised
scrape_site_return_on_error ==
    /\ pc = "loop"
    /\ ~email_mode
    /\ (~loop_condition \/ step.scrape = "Exception" \/ step.links = "Exception")
    /\ pc' = "done"
    /\ step' = [NoStep EXCEPT !.kind = "return"]
    /\ UNCHANGED <<config_vars, call_vars, visited_urls, url_queue, results,
                   email_groups, fetch_log, matcher_vars, web_vars>>

\* return results (scraper.py:149)
scrape_site_return ==
    /\ pc = "loop"
    /\ ~email_mode
    /\ ~loop_condition
    /\ pc' = "done"
    /\ step' = [NoStep EXCEPT !.kind = "return"]
    /\ UNCHANGED <<config_vars, call_vars, visited_urls, url_queue, results,
                   email_groups, fetch_log, matcher_vars, web_vars>>

\* email_groups[email].add(page_url) for the pairs of the page; sp is what
\* _scrape_page_email_mode returned or raised
page_emails(cur, outcome, sp) ==
    page_links(cur, IF sp.error # "" THEN sp.error ELSE outcome,
               IF sp.error = "" THEN sp.pairs ELSE <<>>,
               results,
               IF sp.error = "" THEN group_emails(email_groups, sp.pairs) ELSE email_groups)

\* one iteration of the loop of _scrape_site_email_mode that processes a
\* page (scraper.py:318-346)
scrape_site_email_mode_page ==
    /\ pc = "loop"
    /\ email_mode
    /\ loop_condition
    /\ ~skip_condition(Head(url_queue))
    /\ \E r1 \in PageResponses(TRUE) :
          page_emails(Head(url_queue), r1.outcome,
              IF r1.outcome = "ok"
              THEN scrape_page_email_mode(Head(url_queue).url, pattern_matcher,
                                          r1.text, r1.hrefs)
              ELSE [error |-> "", pairs |-> <<>>])
    /\ UNCHANGED <<config_vars, call_vars, pc, matcher_vars, web_vars>>

\* a return that empties the visited set for the next call
scrape_site_email_mode_return_resets ==
    /\ pc = "loop"
    /\ email_mode
    /\ ~loop_condition
    /\ results' = format_groups(email_groups)
    /\ visited_urls' = {}
    /\ pc' = "done"
    /\ step' = [NoStep EXCEPT !.kind = "return"]
    /\ UNCHANGED <<config_vars, call_vars, url_queue, email_groups,
                   fetch_log, matcher_vars, web_vars>>

\* the formatting of the groups and the return (scraper.py:348-354)
scrape_site_email_mode_return ==
    /\ pc = "loop"
    /\ email_mode
    /\ ~loop_condition
    /\ results' = format_groups(email_groups)
    /\ pc' = "done"
    /\ step' = [NoStep EXCEPT !.kind = "return"]
    /\ UNCHANGED <<config_vars, call_vars, visited_urls, url_queue, email_groups,
                   fetch_log, matcher_vars, web_vars>>

Next ==
    \/ scrape_site_start
    \/ loop_skip
    \/ scrape_site_page
    \/ scrape_site_return
    \/ scrape_site_email_mode_page
    \/ scrape_site_email_mode_return

Spec == CrawlInit /\ [][Next]_vars

\* The loop is sequential code: each request carries a timeout and the delay
\* is finite, so an iteration that can run does run.
FairSpec == Spec /\ WF_vars(Next)

\* successive scrape_site calls on one WebScraper instance
NextCalls ==
    \/ Next
    \/ scrape_site_again

SpecCalls == CrawlInit /\ [][NextCalls]_vars

\* scrape_site(start_url, matcher, extract_before=True, extract_after=True)
\* on a fresh instance: the call the web front end's loop stands for
scrape_site_both_flags ==
    /\ pc = "idle"
    /\ scrape_site_call(SeedUrl, [m |-> LiteralAt, flags |-> <<TRUE, TRUE>>, em |-> FALSE])

NextBothFlags ==
    \/ scrape_site_both_flags
    \/ loop_skip
    \/ scrape_site_page
    \/ scrape_site_return

SpecBothFlags == CrawlInit /\ [][NextBothFlags]_vars

-----------------------------------------------------------------------------
(* PatternMatcher as an object: construction, then calls *)

\* the arguments callers pass: absent, empty, or a string (one of them ends
\* with a punctuation mark)
PatternArgs ==
    {None, Some(<<>>), Some(<<"@">>), Some(<<"c","o">>), Some(<<"o","o">>), Some(<<"o","!">>)}
CustomArgs == {None, Some(<<>>), Some(<<"C","O">>)}
\* the texts searched: empty; an address before a full stop; a word before
\* a comma; the pattern overlapping itself; the sentence and the two entity
\* cases of the extraction tests; a token with two "@"; a repeated address
\* around a candidate with two dots in a row
MatcherTexts ==
    {<<>>,
     <<"a","@","b",".","c","o",".">>,
     <<"x"," ","c","o","m","@","c","o",",">>,
     <<"z","o","o","o","!">>,
     <<"e","m","a","i","l",":"," ","s","u","p","p","o","r","t","@","v","o","d","a",".","c","o",".">>,
     <<"s","u","p","p","o","r","t","@","v","o","d","a",".","c","o","&","n","b","s","p",";">>,
     <<"s","u","p","p","o","r","t","@","v","o","d","a",".","c","o","&","a","m","p",";">>,
     <<"a","@","b","@","c",".","d",".">>,
     <<"a","@","b",".","c","o"," ","a",".",".","b","@","c",".","c","o"," ","a","@","b",".","c","o">>}
\* the candidates handed to is_valid_email: the rejected and the accepted
\* examples of the validation tests, a dot at either end of the local part
\* and at the start of the domain, a final newline, a final label with "|",
\* a final label of one letter, two "@", a domain of one label, and local
\* parts of 64 and of 65 characters
EmailCandidates ==
    {<<>>,
     <<"@","e","x","a","m","p","l","e",".","c","o","m">>,
     <<"t","e","s","t","@">>,
     <<"t","e","s","t",".",".","t","e","s","t","@","e","x","a","m","p","l","e",".","c","o","m">>,
     <<"t","e","s","t","@","e","x","a","m","p","l","e",".","c","o","m",".">>,
     <<".","a","@","b",".","c","o">>,
     <<"a",".","@","b",".","c","o">>,
     <<"a","@",".","b",".","c","o">>,
     <<"s","u","p","p","o","r","t","@","v","o","d","a",".","c","o">>,
     <<"u","s","e","r",".","n","a","m","e","@","d","o","m","a","i","n",".","c","o",".","u","k">>,
     <<"a","@","b",".","c","o","\n">>,
     <<"a","@","b",".","c","|">>,
     <<"a","@","b",".","c">>,
     <<"a","@","b","@","c",".","c","o">>,
     <<"a","@","b","c","o">>,
     [i \in 1..64 |-> "a"] \o <<"@","b",".","c","o">>,
     [i \in 1..65 |-> "a"] \o <<"@","b",".","c","o">>}
\* the page urls passed to find_emails_with_pages
PageUrls == {SeedUrl, <<"h","t","t","p",":","/","/","a","/","p">>}

\* the pages handed to _scrape_page_email_mode: their text and the hrefs of
\* their anchors.  The anchors: none; an address without a top-level
\* domain, an address of the text with a query, a new address; a link that
\* is no mailto:, a new address with a fragment and then plain, the scheme
\* in capitals, an address of the text
EmailPages ==
    {[text |-> x, hrefs |-> h] :
        x \in {<<>>, <<"a","@","b",".","c","o">>, <<"c","@","d",".","i","o",","," ","a","@","b",".","c","o",".">>},
        h \in MailtoHrefLists \cup
              {<<<<"/","p">>, <<"m","a","i","l","t","o",":","e","@","f",".","u","k","#","x","?","y">>,
                 <<"m","a","i","l","t","o",":","e","@","f",".","u","k">>, <<"M","A","I","L","T","O",":","g","@","h",".","i","o">>,
                 <<"m","a","i","l","t","o",":","c","@","d",".","i","o">>>>}}

crawl_vars == <<max_pages, max_depth, follow_sitemap, visited_urls, pc, start_url,
                pattern_matcher, extract_flags, email_mode, url_queue, results,
                email_groups, earlier_visited, step, fetch_log>>

MatcherInit ==
    /\ max_pages = 0
    /\ max_depth = 0
    /\ follow_sitemap = FALSE
    /\ visited_urls = {}
    /\ pc = "idle"
    /\ start_url = <<>>
    /\ pattern_matcher = NoMatcher
    /\ extract_flags = <<FALSE, FALSE>>
    /\ email_mode = FALSE
    /\ url_queue = <<>>
    /\ results = <<>>
    /\ email_groups = <<>>
    /\ earlier_visited = {}
    /\ step = NoStep
    /\ fetch_log = <<>>
    /\ ctor_args = <<>>
    /\ matcher = NoMatcher
    /\ call = <<>>
    /\ ret = <<>>
    /\ WebIdle

\* PatternMatcher(pattern, custom_pattern, email_mode): the object, or the
\* ValueError raised
construct ==
    /\ \E pattern \in PatternArgs, custom_pattern \in CustomArgs, em \in BOOLEAN :
          /\ ctor_args' = <<pattern, custom_pattern, em>>
          /\ matcher' = PatternMatcher_init(pattern, custom_pattern, em)
    /\ call' = <<>>
    /\ ret' = <<>>
    /\ UNCHANGED <<crawl_vars, web_vars>>

\* matcher.find_matches(text, extract_before, extract_after)
call_find_matches ==
    /\ matcher.error = ""
    /\ \E text \in MatcherTexts, eb \in BOOLEAN, ea \in BOOLEAN :
          /\ call' = <<"find_matches", text, eb, ea>>
          /\ ret' = find_matches(matcher, text, eb, ea)
    /\ UNCHANGED <<crawl_vars, web_vars, ctor_args, matcher>>

\* matcher.find_emails_with_pages(text, page_url)
call_find_emails_with_pages ==
    /\ matcher.error = ""
    /\ \E text \in MatcherTexts, page_url \in PageUrls :
          /\ call' = <<"find_emails_with_pages", text, page_url>>
          /\ ret' = find_emails_with_pages(matcher, text, page_url)
    /\ UNCHANGED <<crawl_vars, web_vars, ctor_args, matcher>>

\* matcher.is_valid_email(email)
call_is_valid_email ==
    /\ matcher.error = ""
    /\ \E email \in EmailCandidates :
          /\ call' = <<"is_valid_email", email>>
          /\ ret' = is_valid_email(email)
    /\ UNCHANGED <<crawl_vars, web_vars, ctor_args, matcher>>

\* scraper._scrape_page_email_mode(url, matcher) on a page that was fetched
call_scrape_page_email_mode ==
    /\ matcher.error = ""
    /\ \E page \in EmailPages, url \in PageUrls :
          /\ call' = <<"_scrape_page_email_mode", url, page.text, page.hrefs>>
          /\ ret' = scrape_page_email_mode(url, matcher, page.text, page.hrefs)
    /\ UNCHANGED <<crawl_vars, web_vars, ctor_args, matcher>>

NextMatcher ==
    \/ construct
    \/ call_find_matches
    \/ call_find_emails_with_pages
    \/ call_is_valid_email
    \/ call_scrape_page_email_mode

SpecMatcher == MatcherInit /\ [][NextMatcher]_vars

-----------------------------------------------------------------------------
(* WebCheckerApp (backend/webchecker/web_app.py): sessions and their workers *)

\* the site as every GET sees it: two pages that link to each other
Site(url) ==
    IF url = SeedUrl
    THEN [outcome |-> "ok", text |-> <<"a","@","b",".","c","o">>, hrefs |-> <<<<"/","p">>>>]
    ELSE IF url = <<"h","t","t","p",":","/","/","a","/","p">>
    THEN [outcome |-> "ok", text |-> <<"c","@","d",".","i","o",","," ","a","@","b",".","c","o",".">>,
          hrefs |-> <<<<"h","t","t","p",":","/","/","a","/">>>>]
    ELSE [outcome |-> "RequestException", text |-> <<>>, hrefs |-> <<>>]
\* its /sitemap.xml lists http://a/p; the two other sources are missing
SiteSitemaps == <<SitemapXml, Failed, Failed>>

\* the JSON bodies posted to /api/start-scrape
WebRequests ==
    {[url |-> SeedUrl, pattern |-> <<"@">>, max_pages |-> 2, max_depth |-> 1,
      follow_sitemap |-> FALSE, email_mode |-> FALSE],
     [url |-> <<"h","t","t","p",":","/","/","a","/","p">>, pattern |-> <<>>, max_pages |-> 1, max_depth |-> 0,
      follow_sitemap |-> TRUE, email_mode |-> TRUE],
     [url |-> SeedUrl, pattern |-> <<>>, max_pages |-> 1, max_depth |-> 0,
      follow_sitemap |-> FALSE, email_mode |-> FALSE],
     [url |-> SeedUrl, pattern |-> <<"@">>, max_pages |-> 2, max_depth |-> 0,
      follow_sitemap |-> FALSE, email_mode |-> FALSE]}

\* PatternMatcher(email_mode=True) or PatternMatcher(pattern=pattern)
request_matcher(req) ==
    IF req.email_mode THEN PatternMatcher_init(None, None, TRUE)
    ELSE PatternMatcher_init(Some(req.pattern), None, FALSE)

\* the session dict start_scrape stores, with its own WebScraper
new_session(req, n) ==
    [scraper |-> n, scraper_closed |-> FALSE, url |-> req.url, status |-> "starting",
     progress |-> 0, current_page |-> <<>>, results |-> <<>>, total_pages |-> 0,
     error |-> None]

\* POST /api/start-scrape: the session id is made of the second of the
\* clock and the identifier of the handling thread; the dict is stored
\* under it and the worker thread is started.  A request without a url, or
\* without a pattern outside email mode, is answered 400 and changes nothing.
start_scrape ==
    \E s \in Sessions, req \in WebRequests, ident \in ThreadIdents :
        /\ workers[s].pc = "none"
        /\ req.url # <<>>
        /\ req.email_mode \/ req.pattern # <<>>
        /\ session_data' = Append(session_data, new_session(req, Len(session_data) + 1))
        /\ active_sessions' =
              [active_sessions EXCEPT ![<<clock, ident>>] = Len(session_data) + 1]
        /\ workers' = [workers EXCEPT ![s] =
              [NoWorker EXCEPT !.pc = "start", !.req = req,
                               !.session_id = <<clock, ident>>]]
        /\ UNCHANGED <<clock, poll, crawl_vars, matcher_vars>>

\* a second of wall-clock time passes
tick ==
    /\ clock < MaxClock
    /\ clock' = clock + 1
    /\ UNCHANGED <<active_sessions, session_data, workers, poll, crawl_vars, matcher_vars>>

\* _scrape_worker up to the call of _scrape_with_progress: the dict is
\* looked up by session id and marked running
scrape_worker_start ==
    \E s \in Sessions :
        /\ workers[s].pc = "start"
        /\ IF active_sessions[workers[s].session_id] = 0
           THEN \* KeyError ahead of the try block: the thread ends
                /\ workers' = [workers EXCEPT ![s].pc = "dead"]
                /\ session_data' = session_data
           ELSE /\ workers' = [workers EXCEPT
                      ![s].pc = "entry",
                      ![s].data = active_sessions[workers[s].session_id]]
                /\ session_data' =
                      [session_data EXCEPT
                          ![active_sessions[workers[s].session_id]].status = "running"]
        /\ UNCHANGED <<clock, active_sessions, poll, crawl_vars, matcher_vars>>

\* _scrape_with_progress up to the loop: the queue with the seed and the
\* sitemap urls, the dict looked up by session id once more
scrape_with_progress_entry ==
    \E s \in Sessions :
        /\ workers[s].pc = "entry"
        /\ active_sessions[workers[s].session_id] # 0
        /\ workers' = [workers EXCEPT
              ![s].pc = "loop",
              ![s].progress_data = active_sessions[workers[s].session_id],
              ![s].url_queue =
                  <<[url |-> workers[s].req.url, depth |-> 0]>>
                  \o (IF workers[s].req.follow_sitemap
                      THEN sitemap_entries(
                               discover_sitemap_urls(workers[s].req.url, SiteSitemaps), {})
                      ELSE <<>>)]
        /\ session_data' =
              [session_data EXCEPT ![active_sessions[workers[s].session_id]].total_pages =
                                      workers[s].req.max_pages]
        /\ UNCHANGED <<clock, active_sessions, poll, crawl_vars, matcher_vars>>

\* while url_queue and processed_pages < max_pages
progress_loop_condition(w) ==
    w.url_queue # <<>> /\ w.processed_pages < w.req.max_pages

\* page results taken with extract_before only
progress_page_results_before_only(req, url, page) ==
    IF page.outcome # "ok" THEN <<>>
    ELSE page_lines(url, find_matches(request_matcher(req), page.text, TRUE, FALSE))

\* the lines one page adds to results: f"{page_url}: {email}" for the pairs
\* of _scrape_page_email_mode, or what _scrape_page returns with both flags
progress_page_results(req, url, page) ==
    IF page.outcome # "ok" THEN <<>>
    ELSE IF req.email_mode
    THEN [i \in 1..Len(scrape_page_email_mode(url, request_matcher(req),
                                              page.text, page.hrefs).pairs) |->
             scrape_page_email_mode(url, request_matcher(req),
                                    page.text, page.hrefs).pairs[i][2]
             \o <<":", " ">>
             \o scrape_page_email_mode(url, request_matcher(req),
                                       page.text, page.hrefs).pairs[i][1]]
    ELSE page_lines(url, find_matches(request_matcher(req), page.text, TRUE, TRUE))

\* the links one page adds to the queue: page answers the GET of the page
\* scrape, links the GET of _extract_links, which is made when the scrape
\* raised nothing and depth < max_depth
progress_page_links(w, cur, page, links) ==
    IF cur.depth < w.req.max_depth /\ page.outcome \in {"ok", "RequestException"}
       /\ links.outcome = "ok"
    THEN link_entries(extract_links(links.hrefs, cur.url, urlparse(w.req.url, <<>>).netloc),
                      w.visited_urls \cup {cur.url}, cur.depth)
    ELSE <<>>

\* one iteration of the loop of _scrape_with_progress on the locals of w,
\* given the answers to its two GETs
progress_iteration(w, cur, page, links) ==
    IF cur.url \in w.visited_urls \/ cur.depth > w.req.max_depth
    THEN [w EXCEPT !.url_queue = Tail(w.url_queue)]
    ELSE [w EXCEPT !.url_queue = Tail(w.url_queue) \o progress_page_links(w, cur, page, links),
                   !.visited_urls = w.visited_urls \cup {cur.url},
                   !.processed_pages = w.processed_pages + 1,
                   !.results = w.results \o progress_page_results(w.req, cur.url, page)]

\* min(int((processed_pages / max_pages) * 100), 100)
progress_percentage(w) ==
    IF (w.processed_pages * 100) \div w.req.max_pages < 100
    THEN (w.processed_pages * 100) \div w.req.max_pages ELSE 100

\* one iteration of the loop in the worker of session s; a page that is
\* processed is reported in the dict of the second lookup
scrape_with_progress_step ==
    \E s \in Sessions :
        /\ workers[s].pc = "loop"
        /\ progress_loop_condition(workers[s])
        /\ workers' = [workers EXCEPT
              ![s] = progress_iteration(workers[s], Head(workers[s].url_queue),
                                        Site(Head(workers[s].url_queue).url),
                                        Site(Head(workers[s].url_queue).url))]
        /\ session_data' =
              IF workers'[s].processed_pages = workers[s].processed_pages
              THEN session_data
              ELSE [session_data EXCEPT
                      ![workers[s].progress_data].current_page = Head(workers[s].url_queue).url,
                      ![workers[s].progress_data].progress = progress_percentage(workers'[s])]
        /\ UNCHANGED <<clock, active_sessions, poll, crawl_vars, matcher_vars>>

\* the second lookup of the session id fails, the session having been
\* cleared: the KeyError is caught in _scrape_worker, which records it (the
\* message is the key), sets the status and closes the scraper
scrape_worker_error ==
    \E s \in Sessions :
        /\ workers[s].pc = "entry"
        /\ active_sessions[workers[s].session_id] = 0
        /\ workers' = [workers EXCEPT ![s].pc = "failed"]
        /\ session_data' =
              [session_data EXCEPT
                  ![workers[s].data].error = [is_none |-> FALSE, str |-> workers[s].session_id],
                  ![workers[s].data].status = "error",
                  ![workers[s].data].scraper_closed = TRUE]
        /\ UNCHANGED <<clock, active_sessions, poll, crawl_vars, matcher_vars>>

\* the return of _scrape_with_progress: session_data['results'] = results,
\* in the dict of the first lookup
scrape_worker_return ==
    \E s \in Sessions :
        /\ workers[s].pc = "loop"
        /\ ~progress_loop_condition(workers[s])
        /\ workers' = [workers EXCEPT ![s].pc = "returned"]
        /\ session_data' =
              [session_data EXCEPT ![workers[s].data].results = workers[s].results]
        /\ UNCHANGED <<clock, active_sessions, poll, crawl_vars, matcher_vars>>

\* session_data['status'] = 'completed'
scrape_worker_completed ==
    \E s \in Sessions :
        /\ workers[s].pc = "returned"
        /\ workers' = [workers EXCEPT ![s].pc = "completed"]
        /\ session_data' = [session_data EXCEPT ![workers[s].data].status = "completed"]
        /\ UNCHANGED <<clock, active_sessions, poll, crawl_vars, matcher_vars>>

\* session_data['progress'] = 100, and scraper.close() in the finally block
scrape_worker_finish ==
    \E s \in Sessions :
        /\ workers[s].pc = "completed"
        /\ workers' = [workers EXCEPT ![s].pc = "finished"]
        /\ session_data' =
              [session_data EXCEPT ![workers[s].data].progress = 100,
                                   ![workers[s].data].scraper_closed = TRUE]
        /\ UNCHANGED <<clock, active_sessions, poll, crawl_vars, matcher_vars>>

\* GET /api/status/<session_id>: 404 for an id that is not stored, otherwise
\* the fields of the dict stored under it
get_status ==
    \E id \in SessionIds :
        /\ poll' = IF active_sessions[id] = 0
                   THEN [NoPoll EXCEPT !.session_id = id, !.code = 404]
                   ELSE [session_id |-> id, code |-> 200,
                         status |-> session_data[active_sessions[id]].status,
                         progress |-> session_data[active_sessions[id]].progress,
                         results |-> session_data[active_sessions[id]].results]
        /\ UNCHANGED <<clock, active_sessions, session_data, workers,
                       crawl_vars, matcher_vars>>

\* GET /api/stop/<session_id>: the status of a stored session is set and its
\* scraper closed; the worker thread is not told
stop_scrape ==
    \E id \in SessionIds :
        /\ active_sessions[id] # 0
        /\ session_data' =
              [session_data EXCEPT ![active_sessions[id]].status = "stopped",
                                   ![active_sessions[id]].scraper_closed = TRUE]
        /\ UNCHANGED <<clock, active_sessions, workers, poll, crawl_vars, matcher_vars>>

\* GET /api/clear/<session_id>: the scraper of a stored session is closed
\* and the entry deleted
clear_session ==
    \E id \in SessionIds :
        /\ active_sessions[id] # 0
        /\ session_data' =
              [session_data EXCEPT ![active_sessions[id]].scraper_closed = TRUE]
        /\ active_sessions' = [active_sessions EXCEPT ![id] = 0]
        /\ UNCHANGED <<clock, workers, poll, crawl_vars, matcher_vars>>

\* _scrape_with_progress run to its return on locals that nothing else touches
RECURSIVE scrape_with_progress(_)
scrape_with_progress(w) ==
    IF progress_loop_condition(w)
    THEN scrape_with_progress(progress_iteration(w, Head(w.url_queue),
                                                 Site(Head(w.url_queue).url),
                                                 Site(Head(w.url_queue).url)))
    ELSE w

NextWeb ==
    \/ start_scrape
    \/ tick
    \/ scrape_worker_start
    \/ scrape_with_progress_entry
    \/ scrape_with_progress_step
    \/ scrape_worker_return
    \/ scrape_worker_completed
    \/ scrape_worker_finish

SpecWeb == MatcherInit /\ [][NextWeb]_vars

\* the sessions with a client that polls their status
NextStatus ==
    \/ NextWeb
    \/ get_status

SpecStatus == MatcherInit /\ [][NextStatus]_vars

\* the sessions with a client that stops and clears them
NextStop ==
    \/ NextWeb
    \/ stop_scrape
    \/ clear_session
    \/ scrape_worker_error

SpecStop == MatcherInit /\ [][NextStop]_vars

-----------------------------------------------------------------------------
(* Properties of the crawl *)

\* the outcomes of a page that raised
Failures == {"RequestException", "Exception", "ValueError"}

\* C1: in every reachable state of a crawl, in normal or email mode and
\* whatever the site and the fetch failures, the number of URLs marked
\* visited is at most max_pages, for max_pages >= 1.
C1_VisitedWithinBudget ==
    max_pages >= 1 => Cardinality(visited_urls) <= max_pages

\* the budget is used up while entries are still queued
C1_Witness ==
    /\ pc = "loop"
    /\ max_pages >= 2
    /\ Cardinality(visited_urls) = max_pages
    /\ url_queue # <<>>

\* C2: no URL is processed (marked visited and fetched) at a depth greater
\* than max_depth, and link discovery never appends a queue entry whose
\* depth exceeds max_depth.
C2_DepthWithinLimit ==
    /\ \A i \in 1..Len(fetch_log) : fetch_log[i].depth <= max_depth
    /\ \A i \in 1..Len(step.appended) : step.appended[i].depth <= max_depth

\* a page found by link discovery is processed at depth max_depth and its
\* links are not read
C2_Witness ==
    /\ max_depth >= 1
    /\ step.kind = "page"
    /\ step.depth = max_depth
    /\ step.scrape = "ok"
    /\ step.links = "none"

\* C3: within one crawl each URL is processed at most once: a queue entry
\* for a visited URL is discarded without a fetch (only the queue changes),
\* and link discovery never appends an entry for a visited URL.
C3_ProcessedOnce ==
    /\ [](\A i, j \in 1..Len(fetch_log) :
              i # j => fetch_log[i].url # fetch_log[j].url)
    /\ [](\A i \in 1..Len(step.appended) : step.appended[i].url \notin visited_urls)
    /\ [][(pc = "loop" /\ pc' = "loop" /\ url_queue # <<>>
             /\ Head(url_queue).url \in visited_urls)
          => (/\ fetch_log' = fetch_log
              /\ visited_urls' = visited_urls
              /\ results' = results
              /\ url_queue' = Tail(url_queue))]_vars

\* a queue entry for a URL already visited has just been discarded
C3_Witness ==
    /\ step.kind = "skip"
    /\ step.url \in visited_urls
    /\ step.depth <= max_depth
    /\ fetch_log # <<>>

\* C4: a fetch failure or any exception while processing one page does not
\* end the crawl: the call returns only when the queue is empty or the
\* budget is used up, and every iteration, also one that failed, takes the
\* head of the queue, processes it exactly when it is unvisited and within
\* max_depth, and leaves the other entries queued.
C4_FailureDoesNotEndCrawl ==
    [][/\ (pc = "loop" /\ pc' = "done") => ~loop_condition
       /\ (pc = "loop" /\ pc' = "loop" /\ url_queue # <<>>)
          => (/\ step'.url = Head(url_queue).url
              /\ step'.depth = Head(url_queue).depth
              /\ (step'.kind = "page") <=> ~skip_condition(Head(url_queue))
              /\ Len(url_queue') >= Len(url_queue) - 1
              /\ SubSeq(url_queue', 1, Len(url_queue) - 1) = Tail(url_queue))]_vars

\* a page is processed successfully after an earlier page failed
C4_Witness ==
    \E i, j \in 1..Len(fetch_log) :
        /\ i < j
        /\ fetch_log[i].scrape \in Failures
        /\ fetch_log[j].scrape = "ok"
        /\ fetch_log[j].found # <<>>

\* C5: every scrape_site call terminates and returns a result list,
\* whatever the page and sitemap fetch outcomes; when it returns, the queue
\* is empty or the number of visited URLs has reached max_pages.
C5_Terminates ==
    /\ (pc = "loop") ~> (pc = "done")
    /\ [](pc = "done" => (url_queue = <<>> \/ Cardinality(visited_urls) >= max_pages))

\* a call returned on the budget with entries left in the queue
C5_Witness ==
    /\ pc = "done"
    /\ max_pages >= 1
    /\ url_queue # <<>>
    /\ Cardinality(visited_urls) = max_pages
    /\ \E i \in 1..Len(fetch_log) : fetch_log[i].scrape \in Failures

\* C6: every URL fetched as a page during a crawl has the same authority as
\* start_url, including the URLs that entered the queue through the sitemap
\* bootstrap.
C6_SameAuthority ==
    \A i \in 1..Len(fetch_log) :
        urlparse(fetch_log[i].url, <<>>).netloc = urlparse(start_url, <<>>).netloc

\* C7: link discovery enqueues a resolved link only if its authority equals
\* the authority of start_url (the scheme is not compared, a subdomain does
\* not match) and the exclusion predicate is false for it; a link whose path
\* ends in .pdf, or that contains /download/, /files/, /assets/, /media/,
\* blob:, data: or javascript:, is never enqueued by link discovery.
C7_OnlyAcceptedLinksEnqueued ==
    \A i \in 1..Len(step.appended) :
        /\ urlparse(step.appended[i].url, <<>>).netloc = urlparse(start_url, <<>>).netloc
        /\ ~should_exclude_url(step.appended[i].url)
        /\ ~EndsWith(Lower(urlparse(step.appended[i].url, <<>>).path), <<".","p","d","f">>)
        /\ \A marker \in {<<"/","d","o","w","n","l","o","a","d","/">>,
                          <<"/","f","i","l","e","s","/">>, <<"/","a","s","s","e","t","s","/">>,
                          <<"/","m","e","d","i","a","/">>, <<"b","l","o","b",":">>,
                          <<"d","a","t","a",":">>,
                          <<"j","a","v","a","s","c","r","i","p","t",":">>} :
               ~Contains(Lower(step.appended[i].url), marker)

\* a link of the site under another scheme has been enqueued
C7_Witness ==
    /\ step.kind = "page"
    /\ step.links = "ok"
    /\ \E i \in 1..Len(step.appended) :
          step.appended[i].url = <<"h","t","t","p","s",":","/","/","a","/","q">>

\* the addresses found on the processed pages, and the pages of one address
C8_Emails ==
    UNION {{fetch_log[i].found[k][1] : k \in 1..Len(fetch_log[i].found)} :
              i \in 1..Len(fetch_log)}
C8_PagesOf(e) ==
    {fetch_log[i].url :
        i \in {j \in 1..Len(fetch_log) :
                  \E k \in 1..Len(fetch_log[j].found) : fetch_log[j].found[k][1] = e}}
\* q lists the set S, each element once, in increasing order
C8_SortedListing(q, S) ==
    /\ {q[i] : i \in 1..Len(q)} = S
    /\ \A i, j \in 1..Len(q) : i < j => StrLess(q[i], q[j])
RECURSIVE C8_CommaJoined(_)
C8_CommaJoined(q) ==
    IF Len(q) = 1 THEN q[1] ELSE q[1] \o <<",", " ">> \o C8_CommaJoined(Tail(q))

\* C8: in email mode the result of scrape_site has exactly one line per
\* distinct address found on a processed page, and the line lists every
\* processed page the address was found on, each once, in sorted order,
\* joined by ', '.
C8_EmailModeGrouping ==
    (pc = "done" /\ email_mode) =>
        /\ Len(results) = Cardinality(C8_Emails)
        /\ \A e \in C8_Emails :
              \E i \in 1..Len(results) :
              \E q \in [1..Cardinality(C8_PagesOf(e)) -> C8_PagesOf(e)] :
                  /\ C8_SortedListing(q, C8_PagesOf(e))
                  /\ results[i] = e \o <<":", " ">> \o C8_CommaJoined(q)

\* an address found on two pages, and a second address, in the result
C8_Witness ==
    /\ pc = "done"
    /\ email_mode
    /\ Len(results) >= 2
    /\ \E e \in C8_Emails : Cardinality(C8_PagesOf(e)) >= 2

\* the lines of the pages of a log, page by page
RECURSIVE C9_Lines(_)
C9_Lines(log) ==
    IF log = <<>> THEN <<>>
    ELSE [k \in 1..Len(log[1].found) |-> log[1].url \o <<":", " ">> \o log[1].found[k]]
         \o C9_Lines(Tail(log))

\* C9: in normal mode the result of scrape_site is the concatenation, in
\* the order the pages were processed, of each page's tokens in match
\* order, each as '<url>: <token>' with the URL of its page; every URL of a
\* result line is a visited URL.
C9_NormalModeLines ==
    (pc \in {"loop", "done"} /\ ~email_mode) =>
        /\ results = C9_Lines(fetch_log)
        /\ \A i \in 1..Len(results) :
              \E u \in visited_urls : StartsWith(results[i], u \o <<":", " ">>)

\* a result with the tokens of two pages, one of them with two tokens
C9_Witness ==
    /\ pc = "done"
    /\ ~email_mode
    /\ \E i, j \in 1..Len(fetch_log) :
          /\ i < j
          /\ Len(fetch_log[i].found) >= 2
          /\ Len(fetch_log[j].found) >= 1

-----------------------------------------------------------------------------
(* Properties of PatternMatcher *)

\* an argument that is given and not the empty string
C10_Effective(x) == ~x.is_none /\ Len(x.str) > 0
\* the number of discriminators supplied
C10_Supplied ==
    (IF C10_Effective(ctor_args[1]) THEN 1 ELSE 0)
    + (IF C10_Effective(ctor_args[2]) THEN 1 ELSE 0)
    + (IF ctor_args[3] THEN 1 ELSE 0)

RECURSIVE C11_Occurrences(_, _, _)
C11_Occurrences(text, p, start) ==
    IF Find(text, p, start) = 0 THEN 0
    ELSE 1 + C11_Occurrences(text, p, Find(text, p, start) + Len(p))

\* C11: with neither extraction flag, find_matches on a literal pattern P
\* returns P once for every non-overlapping occurrence of P in the text,
\* left to right; for a text (the empty text included) with no occurrence of
\* P the result is the empty sequence under every flag combination.
C11_LiteralMatches ==
    (call # <<>> /\ call[1] = "find_matches" /\ matcher.regex.kind = "literal") =>
        /\ (~call[3] /\ ~call[4]) =>
              ret = [i \in 1..C11_Occurrences(call[2], matcher.regex.lit, 1) |->
                        matcher.regex.lit]
        /\ Find(call[2], matcher.regex.lit, 1) = 0 => ret = <<>>

\* a text in which the pattern overlaps itself has been searched without
\* flags, and one occurrence came back
C11_Witness ==
    /\ call # <<>>
    /\ call[1] = "find_matches"
    /\ ~call[3] /\ ~call[4]
    /\ matcher.regex.kind = "literal"
    /\ Find(call[2], matcher.regex.lit, 1) > 0
    /\ Find(call[2], matcher.regex.lit, Find(call[2], matcher.regex.lit, 1) + 1)
          = Find(call[2], matcher.regex.lit, 1) + 1
    /\ ret = <<matcher.regex.lit>>

\* the find_matches call of the state, when there is one
C12_IsFindMatches == call # <<>> /\ call[1] = "find_matches"
\* the words a context-extraction call cuts out of the text, before cleaning
C12_Words ==
    IF call[3] /\ call[4]
    THEN context_words_both(call[2], finditer(matcher.regex, call[2]))
    ELSE context_words(call[2], finditer(matcher.regex, call[2]), TRUE, call[4])
\* the stripping the claim describes: the dot is looked for in everything
\* after the first "@"
C12_Claimed(word) ==
    IF Contains(word, <<"@">>)
       /\ Contains(From(word, Find(word, <<"@">>, 1) + 1), <<".">>)
    THEN RStripChars(word, {",", ";", ":", "!", "?"})
    ELSE RStripChars(word, {".", ",", ";", ":", "!", "?"})

\* C12: in the context-extraction modes of find_matches, a token that
\* contains "@" and whose substring after its first "@" contains "." has
\* only trailing , ; : ! ? stripped (a trailing "." is kept); every other
\* token has trailing . , ; : ! ? stripped.  The result of the call is then
\* the list of the non-empty tokens stripped this way and cleaned of HTML
\* artifacts.
C12_TrailingPunctuation ==
    (C12_IsFindMatches /\ (call[3] \/ call[4])) =>
        ret = SelectSeq([i \in 1..Len(C12_Words) |->
                            clean_html_artifacts(C12_Claimed(Strip(C12_Words[i])))],
                        LAMBDA w : w # <<>>)

\* the email-shaped words W with which text ends when suffix follows W:
\* W passes the validator and starts the text or follows a boundary
C13_WordsBefore(text, suffix) ==
    {W \in {SubSeq(text, k, Len(text) - Len(suffix)) :
                k \in 1..(Len(text) - Len(suffix))} :
        /\ EndsWith(text, suffix)
        /\ is_valid_email(W)
        /\ \/ Len(W) + Len(suffix) = Len(text)
           \/ IsBoundary(text[Len(text) - Len(suffix) - Len(W)])}
\* a find_matches call with both flags on the matcher of the pattern "@"
C13_BothFlagsOnAt ==
    /\ C12_IsFindMatches
    /\ call[3] /\ call[4]
    /\ matcher.regex.kind = "literal"
    /\ matcher.regex.lit = <<"@">>

\* C13: with both extraction flags on the literal pattern "@", find_matches
\* on a text that ends in an email-shaped word W followed by a full stop
\* yields W, without the full stop ('email: support@voda.co.' yields
\* 'support@voda.co').
C13_SentencePeriodDropped ==
    C13_BothFlagsOnAt =>
        \A W \in C13_WordsBefore(call[2], <<".">>) : ret # <<>> /\ ret[Len(ret)] = W

\* C14: with both extraction flags on the pattern "@", a text made of an
\* email-shaped word W followed by &nbsp; or by &amp; yields W, with
\* nothing of the entity left ('support@voda.co&nbsp;' and
\* 'support@voda.co&amp;' yield 'support@voda.co').
C14_EntityDropped ==
    C13_BothFlagsOnAt =>
        \A entity \in {<<"&","n","b","s","p",";">>, <<"&","a","m","p",";">>} :
            \A W \in C13_WordsBefore(call[2], entity) :
                Len(W) + Len(entity) = Len(call[2]) => ret = <<W>>

\* the is_valid_email call of the state, when there is one
C15_IsValidEmailCall == call # <<>> /\ call[1] = "is_valid_email"
\* the malformed shapes the claim lists
C15_Malformed(c) ==
    \/ c = <<>>
    \/ StartsWith(c, <<"@">>)
    \/ EndsWith(c, <<"@">>)
    \/ Contains(c, <<".", ".">>)
    \/ Contains(c, <<".", "@">>)
    \/ Contains(c, <<"@", ".">>)
    \/ StartsWith(c, <<".">>)
    \/ EndsWith(c, <<".">>)

\* C15: is_valid_email returns false for every candidate that is empty,
\* has no local part before "@", has nothing after "@", contains two dots
\* in a row, has a dot directly before or after "@", or begins or ends with
\* a dot; it returns true for 'support@voda.co' and
\* 'user.name@domain.co.uk'.
C15_RejectsMalformed ==
    C15_IsValidEmailCall =>
        /\ C15_Malformed(call[2]) => ret = FALSE
        /\ call[2] \in {<<"s","u","p","p","o","r","t","@","v","o","d","a",".","c","o">>,
                        <<"u","s","e","r",".","n","a","m","e","@","d","o","m","a","i","n",".","c","o",".","u","k">>}
              => ret = TRUE

\* a candidate of the basic shape with two dots in a row has been rejected
C15_Witness ==
    /\ C15_IsValidEmailCall
    /\ basic_format(call[2])
    /\ Contains(call[2], <<".", ".">>)
    /\ ret = FALSE

\* C16: every candidate that is_valid_email accepts has exactly one "@", a
\* local part of 1 to 64 characters, a domain of 1 to 253 characters with
\* at least two dot-separated labels, and a final label of at least two
\* characters, all of them letters A-Z or a-z.
C16_AcceptedShape ==
    (C15_IsValidEmailCall /\ ret = TRUE) =>
        /\ Len(Split(call[2], "@")) = 2
        /\ Len(Split(call[2], "@")[1]) \in 1..64
        /\ Len(Split(call[2], "@")[2]) \in 1..253
        /\ Len(Split(Split(call[2], "@")[2], ".")) >= 2
        /\ Len(Split(call[2], ".")[Len(Split(call[2], "."))]) >= 2
        /\ \A i \in 1..Len(Split(call[2], ".")[Len(Split(call[2], "."))]) :
              Split(call[2], ".")[Len(Split(call[2], "."))][i] \in AlphaChars

\* the find_emails_with_pages call of the state on an email-mode matcher
C17_IsFindEmails ==
    call # <<>> /\ call[1] = "find_emails_with_pages" /\ matcher.email_mode
\* the regex matches of the text, stripped and cleaned of HTML artifacts,
\* in match order
C17_Cleaned ==
    [i \in 1..Len(finditer(matcher.regex, call[2])) |->
        clean_html_artifacts(Strip(SubSeq(call[2],
            finditer(matcher.regex, call[2])[i][1],
            finditer(matcher.regex, call[2])[i][2])))]
\* those of them that pass the validator
C17_Kept == SelectSeq(C17_Cleaned, is_valid_email)

\* C17: find_emails_with_pages on an email-mode matcher returns, in match
\* order and without deduplication, exactly the artifact-cleaned regex
\* matches that pass is_valid_email, each paired with the given page_url;
\* no pair whose email fails is_valid_email is returned.
C17_ValidMatchesInOrder ==
    C17_IsFindEmails =>
        /\ ret.error = ""
        /\ ret.pairs = [i \in 1..Len(C17_Kept) |-> <<C17_Kept[i], call[3]>>]
        /\ \A i \in 1..Len(ret.pairs) : is_valid_email(ret.pairs[i][1])

\* an address matched twice is returned twice, and a match between the two
\* that fails the validator is left out
C17_Witness ==
    /\ C17_IsFindEmails
    /\ Len(ret.pairs) >= 2
    /\ ret.pairs[1] = ret.pairs[2]
    /\ ret.pairs[1][2] = call[3]
    /\ Len(C17_Cleaned) > Len(ret.pairs)
    /\ ~is_valid_email(C17_Cleaned[2])

-----------------------------------------------------------------------------
(* Properties of the crawl: the budget argument and repeated calls *)

\* C18: a crawl asked for with max_pages <= 0 is rejected with an error
\* before the crawl loop starts, without fetching any page or sitemap
\* source: the call never reaches the loop, never returns a result list,
\* and nothing is queued or fetched for it.
C18_NonPositiveBudgetRejected ==
    max_pages <= 0 =>
        /\ pc \notin {"loop", "done"}
        /\ url_queue = <<>>
        /\ fetch_log = <<>>

-----------------------------------------------------------------------------
(* Properties of the web front end *)

\* the worker of session s run alone: its locals at the return of
\* _scrape_with_progress when no other session exists
C20_Alone(s) ==
    scrape_with_progress(
        [workers[s] EXCEPT
            !.url_queue =
                <<[url |-> workers[s].req.url, depth |-> 0]>>
                \o (IF workers[s].req.follow_sitemap
                    THEN sitemap_entries(
                             discover_sitemap_urls(workers[s].req.url, SiteSitemaps), {})
                    ELSE <<>>),
            !.visited_urls = {}, !.processed_pages = 0, !.results = <<>>])
\* what GET /api/status/<session id> answers to the client of session s
C20_Status(s) == session_data[active_sessions[workers[s].session_id]]

\* C20: crawls started concurrently through the web front end do not share
\* crawl state: the workers of two sessions never work on the same session
\* dict and WebScraper, and under every interleaving a finished session has
\* visited the URLs and, once its status reads completed, returns the
\* results it has when run alone.
C20_SessionsIsolated ==
    \A s \in Sessions :
        /\ \A o \in Sessions \ {s} :
              (workers[s].data # 0 /\ workers[o].data # 0) =>
                  /\ workers[s].data # workers[o].data
                  /\ session_data[workers[s].data].scraper
                        # session_data[workers[o].data].scraper
        /\ workers[s].pc = "finished" =>
              /\ workers[s].visited_urls = C20_Alone(s).visited_urls
              /\ C20_Status(s).status = "completed" =>
                    C20_Status(s).results = C20_Alone(s).results

-----------------------------------------------------------------------------
(* Properties of the crawl: frame of a skipped entry, failures, pacing *)

\* the head of the queue is about to be discarded by the loop
C21_HeadSkipped ==
    pc = "loop" /\ loop_condition /\ skip_condition(Head(url_queue))

\* C21: dequeuing an entry whose URL is already visited or whose depth
\* exceeds max_depth changes nothing but the queue: the visited set, the
\* result list and the email grouping are unchanged, no request is made, no
\* delay is taken and nothing is enqueued.
C21_SkipChangesOnlyQueue ==
    [][C21_HeadSkipped =>
          /\ url_queue' = Tail(url_queue)
          /\ visited_urls' = visited_urls
          /\ results' = results
          /\ email_groups' = email_groups
          /\ fetch_log' = fetch_log
          /\ step'.scrape = "none" /\ step'.links = "none"
          /\ ~step'.slept
          /\ step'.appended = <<>>]_vars

\* an entry was discarded as already visited after a page had yielded
\* results, and entries remain behind it
C21_Witness ==
    /\ step.kind = "skip"
    /\ step.url \in visited_urls
    /\ step.depth <= max_depth
    /\ results # <<>>
    /\ url_queue # <<>>

\* the last iteration processed a page whose fetch failed
C22_FetchFailed == step.kind = "page" /\ step.scrape # "ok"

\* C22: when the fetch of a page fails the crawl continues with the next
\* queue entry: that page contributes no results, and no links from it are
\* enqueued.
C22_FailedPageYieldsNothing ==
    C22_FetchFailed =>
        /\ pc = "loop"
        /\ fetch_log[Len(fetch_log)].url = step.url
        /\ fetch_log[Len(fetch_log)].found = <<>>
        /\ step.appended = <<>>

\* what the crawl thread does, in order, in the iteration st: the GET of
\* the page, time.sleep(self.delay) when nothing was raised, the GET of
\* _extract_links when it was called
C23_Events(st) ==
    <<"GET">> \o (IF st.slept THEN <<"sleep">> ELSE <<>>)
              \o (IF st.links # "none" THEN <<"GET">> ELSE <<>>)

\* C23: request pacing is serialized by the fixed delay: between any two
\* consecutive page fetches of a crawl the crawl thread sleeps for the
\* configured delay, and a sleep also follows the processing of the last
\* page.  Every processed page begins with a fetch, so this is: within a
\* page's iteration no two fetches follow each other, and the iteration
\* ends with the sleep.
C23_PacedByDelay ==
    step.kind = "page" =>
        /\ \A i \in 1..(Len(C23_Events(step)) - 1) :
              ~(C23_Events(step)[i] = "GET" /\ C23_Events(step)[i + 1] = "GET")
        /\ C23_Events(step)[Len(C23_Events(step))] = "sleep"

-----------------------------------------------------------------------------
(* Properties of the sitemap bootstrap *)

\* the 'sitemap:' line of the robots.txt the site serves
C24_RobotsUrls == <<<<"h","t","t","p","s",":","/","/","a","/","q">>>>

\* the URLs the three sources returned, source after source; a source whose
\* fetch failed returns none
C24_Returned(resps) ==
    (IF resps[1].ok THEN resps[1].locs ELSE <<>>)
    \o (IF resps[2].ok THEN resps[2].locs ELSE <<>>)
    \o (IF resps[3].ok THEN C24_RobotsUrls ELSE <<>>)

C24_NotVisited(url) == url \notin earlier_visited

\* C24: with follow_sitemap the queue at the start of the main loop is the
\* seed at depth 0 followed by every URL returned by /sitemap.xml,
\* /sitemap_index.xml and the 'sitemap:' lines of /robots.txt that is not
\* already visited, all at depth 0, whichever of the three fetches failed;
\* without follow_sitemap no source is fetched and the queue is the seed.
C24_SitemapBootstrap ==
    step.kind = "start" =>
        /\ pc = "loop"
        /\ url_queue[1] = [url |-> start_url, depth |-> 0]
        /\ follow_sitemap =>
              /\ Len(step.sitemaps) = 3
              /\ Tail(url_queue) =
                    [i \in 1..Len(SelectSeq(C24_Returned(step.sitemaps), C24_NotVisited)) |->
                        [url |-> SelectSeq(C24_Returned(step.sitemaps), C24_NotVisited)[i],
                         depth |-> 0]]
        /\ ~follow_sitemap => (step.sitemaps = <<>> /\ Len(url_queue) = 1)

\* a later call on the instance: the first source answered, the second
\* failed, the third answered; the URL of the first is already visited and
\* is left out, the URL of the third is enqueued
C24_Witness ==
    /\ step.kind = "start"
    /\ follow_sitemap
    /\ step.sitemaps[1].ok /\ ~step.sitemaps[2].ok /\ step.sitemaps[3].ok
    /\ step.sitemaps[1].locs[1] \in earlier_visited
    /\ Len(url_queue) = 2
    /\ url_queue[2].url = C24_RobotsUrls[1]

-----------------------------------------------------------------------------
(* Properties of a page read in email mode *)

\* _scrape_page_email_mode returned its pairs for the page (url, text, hrefs)
C25_IsPageCall ==
    /\ call # <<>>
    /\ call[1] = "_scrape_page_email_mode"
    /\ ret.error = ""

\* what is left of a mailto: href once the scheme and everything from the
\* first "?" or "#" on are removed
C25_Rest(href) == SubSeq(href, 8, Len(href))
C25_Stops(r) == {i \in 1..Len(r) : r[i] \in {"?", "#"}}
C25_Address(href) ==
    SubSeq(C25_Rest(href), 1,
           IF C25_Stops(C25_Rest(href)) = {} THEN Len(C25_Rest(href))
           ELSE (CHOOSE i \in C25_Stops(C25_Rest(href)) :
                    \A j \in C25_Stops(C25_Rest(href)) : i <= j) - 1)
C25_Contributes(href) ==
    /\ Len(href) >= 7
    /\ SubSeq(href, 1, 7) = <<"m","a","i","l","t","o",":">>
    /\ is_valid_email(C25_Address(href))

\* the addresses of the page in order of occurrence: those of the text,
\* then those of the mailto: links
C25_TextEmails ==
    [i \in 1..Len(find_emails_with_pages(matcher, call[3], call[2]).pairs) |->
        find_emails_with_pages(matcher, call[3], call[2]).pairs[i][1]]
C25_All ==
    C25_TextEmails
    \o [i \in 1..Len(SelectSeq(call[4], C25_Contributes)) |->
           C25_Address(SelectSeq(call[4], C25_Contributes)[i])]
C25_First(e) ==
    CHOOSE k \in 1..Len(C25_All) :
        C25_All[k] = e /\ \A j \in 1..(k - 1) : C25_All[j] # e

\* C25: per page in email mode the returned pairs contain each email address
\* at most once, in order of first occurrence with text matches ahead of
\* mailto: links; a mailto: href contributes its address only after the
\* scheme and any "?"/"#" suffix are removed and only if the remainder
\* passes is_valid_email.
C25_PagePairs ==
    C25_IsPageCall =>
        /\ \A i \in 1..Len(ret.pairs) : ret.pairs[i][2] = call[2]
        /\ \A i, j \in 1..Len(ret.pairs) : i < j => ret.pairs[i][1] # ret.pairs[j][1]
        /\ {ret.pairs[i][1] : i \in 1..Len(ret.pairs)}
              = {C25_All[k] : k \in 1..Len(C25_All)}
        /\ \A i, j \in 1..Len(ret.pairs) :
              i < j => C25_First(ret.pairs[i][1]) < C25_First(ret.pairs[j][1])

\* a page with two addresses in its text and three mailto: links: one
\* invalid, one of an address of the text with a query, one new
C25_Witness ==
    /\ C25_IsPageCall
    /\ call[3] = <<"c","@","d",".","i","o",","," ","a","@","b",".","c","o",".">>
    /\ call[4] = <<<<"m","a","i","l","t","o",":","e","@","f",".">>, <<"m","a","i","l","t","o",":","a","@","b",".","c","o","?","s","=","1">>, <<"m","a","i","l","t","o",":","e","@","f",".","u","k">>>>
    /\ ret.pairs = <<<<<<"c","@","d",".","i","o">>, call[2]>>, <<<<"a","@","b",".","c","o">>, call[2]>>, <<<<"e","@","f",".","u","k">>, call[2]>>>>

-----------------------------------------------------------------------------
(* Properties of the tokens of find_matches *)

\* the raw hits of the call of the state, and the word cut out around each
C26_Hits == match_groups(call[2], finditer(matcher.regex, call[2]))
C26_Words ==
    IF call[3] \/ call[4] THEN C12_Words ELSE C26_Hits
\* the words once cleaned, and the matches whose cleaned word is not empty,
\* in match order
C26_Cleaned == [k \in 1..Len(C26_Words) |-> clean_word(C26_Words[k])]
C26_IsKept(k) == C26_Cleaned[k] # <<>>
C26_Kept == SelectSeq([k \in 1..Len(C26_Hits) |-> k], C26_IsKept)

\* C26: in every context-extraction mode each token returned by
\* find_matches contains the raw pattern hit it was built from, the number
\* of tokens never exceeds the number of regex matches, and the tokens
\* appear in match order with duplicates kept and empty tokens dropped.
C26_TokensContainHits ==
    C12_IsFindMatches =>
        /\ Len(ret) <= Len(C26_Hits)
        /\ (call[3] \/ call[4]) =>
              /\ Len(ret) = Len(C26_Kept)
              /\ \A i \in 1..Len(ret) :
                    /\ ret[i] = C26_Cleaned[C26_Kept[i]]
                    /\ Contains(ret[i], C26_Hits[C26_Kept[i]])
        /\ ~(call[3] \/ call[4]) => ret = C26_Hits

-----------------------------------------------------------------------------
(* Properties of the order of the crawl *)

\* C27: the crawl is breadth-first: within one scrape_site call the depths
\* of the queue entries are non-decreasing from front to back and differ by
\* at most 1, so pages are processed in non-decreasing depth order and each
\* URL is processed at the smallest depth of any queue entry created for it:
\* no entry for a processed URL, whether still queued or just discarded, has
\* a smaller depth than the one the URL was processed at.
C27_BreadthFirst ==
    /\ \A i, j \in 1..Len(url_queue) :
          i < j => /\ url_queue[i].depth <= url_queue[j].depth
                   /\ url_queue[j].depth - url_queue[i].depth <= 1
    /\ \A i, j \in 1..Len(fetch_log) :
          i < j => fetch_log[i].depth <= fetch_log[j].depth
    /\ \A k \in 1..Len(fetch_log) :
          /\ \A i \in 1..Len(url_queue) : fetch_log[k].depth <= url_queue[i].depth
          /\ (step.kind = "skip" /\ step.url = fetch_log[k].url) =>
                fetch_log[k].depth <= step.depth

\* two pages have been processed at depth 0, the second one found by the
\* sitemap, and the entry a link created for it at depth 1 is still queued
C27_Witness ==
    /\ pc = "loop"
    /\ Len(fetch_log) = 2
    /\ fetch_log[2].depth = 0
    /\ \E i \in 1..Len(url_queue) :
          url_queue[i].url = fetch_log[2].url /\ url_queue[i].depth = 1

\* C28: the visited set grows monotonically: no step of a crawl, of the
\* sitemap bootstrap or of a later scrape_site call on the same instance
\* removes a URL from it, and a URL is added only at the moment its queue
\* entry is accepted for processing.
C28_VisitedMonotonic ==
    [][/\ visited_urls \subseteq visited_urls'
       /\ visited_urls' # visited_urls =>
             /\ pc = "loop" /\ loop_condition
             /\ ~skip_condition(Head(url_queue))
             /\ visited_urls' = visited_urls \cup {Head(url_queue).url}
             /\ step'.kind = "page"
             /\ step'.url = Head(url_queue).url]_vars

\* a later call on the instance has gone through its sitemap bootstrap and
\* has accepted a page: the set holds what the earlier calls left and the
\* page
C28_Witness ==
    /\ earlier_visited # {}
    /\ follow_sitemap
    /\ step.kind = "page"
    /\ Len(fetch_log) = 1
    /\ visited_urls = earlier_visited \cup {step.url}
    /\ step.url \notin earlier_visited

-----------------------------------------------------------------------------
(* The loop of the web front end against scrape_site *)

\* the locals of _scrape_with_progress that stand for the state of the
\* running scrape_site call: same arguments, same queue, same visited set,
\* same results, as many processed pages as there are visited urls
C29_Worker ==
    [NoWorker EXCEPT
        !.pc = "loop",
        !.req = [url |-> start_url, pattern |-> pattern_matcher.pattern,
                 max_pages |-> max_pages, max_depth |-> max_depth,
                 follow_sitemap |-> follow_sitemap, email_mode |-> FALSE],
        !.url_queue = url_queue,
        !.visited_urls = visited_urls,
        !.processed_pages = Cardinality(visited_urls),
        !.results = results]

\* the queue _scrape_with_progress starts its loop with, given the answers
\* of the three sitemap sources
C29_Entry(url, sitemap, resps) ==
    <<[url |-> url, depth |-> 0]>>
    \o (IF sitemap
        THEN sitemap_entries(discover_sitemap_urls(url, resps), {})
        ELSE <<>>)

\* r1 and r2 are answers to the two GETs of the page that the last
\* iteration of scrape_site may have received
C29_Answers(cur, r1, r2) ==
    /\ r1.outcome = step'.scrape
    /\ (IF r1.outcome = "ok" THEN find_matches(pattern_matcher, r1.text, TRUE, TRUE) ELSE <<>>)
          = fetch_log'[Len(fetch_log')].found
    /\ step'.links # "none" =>
          (r2.outcome = step'.links /\ new_entries(cur, r2) = step'.appended)

\* C29: the progress-reporting crawl of the web front end is the same crawl
\* as scrape_site: for a fresh scraper, the same site and the same fetch
\* outcomes, _scrape_with_progress in normal mode marks the same URLs
\* visited in the same order and returns the same result list as scrape_site
\* called with extract_before=True and extract_after=True.  Step by step:
\* both loops start with the same queue; whenever scrape_site runs an
\* iteration so does _scrape_with_progress, and given the same answers to
\* its GETs it is left with the same queue, visited set and results; and
\* both leave the loop together.
C29_SameCrawl ==
    [][/\ (pc = "idle" /\ pc' = "loop") =>
             /\ visited_urls' = {} /\ results' = <<>>
             /\ url_queue' = C29_Entry(start_url', follow_sitemap', step'.sitemaps)
       /\ (pc = "loop" /\ pc' = "loop") =>
             /\ progress_loop_condition(C29_Worker)
             /\ \E r1 \in PageResponses(FALSE), r2 \in LinkResponses :
                   step'.kind = "page" => C29_Answers(Head(url_queue), r1, r2)
             /\ \A r1 \in PageResponses(FALSE), r2 \in LinkResponses :
                   (step'.kind = "page" => C29_Answers(Head(url_queue), r1, r2)) =>
                       progress_iteration(C29_Worker, Head(url_queue), r1, r2) = C29_Worker'
       /\ (pc = "loop" /\ pc' = "done") =>
             /\ ~progress_loop_condition(C29_Worker)
             /\ results' = C29_Worker.results]_vars

\* the call has returned after two pages: the fetch of the first failed
\* and its links were read all the same, the second yielded results
C29_Witness ==
    /\ pc = "done"
    /\ extract_flags = <<TRUE, TRUE>>
    /\ Len(fetch_log) = 2
    /\ fetch_log[1].scrape = "RequestException"
    /\ fetch_log[2].depth = 1
    /\ results # <<>>

-----------------------------------------------------------------------------
(* The output of the web front end in email mode *)

\* the (email, page) pairs of the given pages of the site, page after page
RECURSIVE C30_Pairs(_)
C30_Pairs(urls) ==
    IF urls = <<>> THEN <<>>
    ELSE (IF Site(urls[1]).outcome = "ok"
          THEN scrape_page_email_mode(urls[1], PatternMatcher_init(None, None, TRUE),
                                      Site(urls[1]).text, Site(urls[1]).hrefs).pairs
          ELSE <<>>)
         \o C30_Pairs(Tail(urls))

\* what _scrape_site_email_mode returns for the pages a worker has visited:
\* one line per distinct address, followed by its sorted pages
C30_EmailLines(w) == format_groups(group_emails(<<>>, C30_Pairs(Sorted(w.visited_urls))))

\* C30: with email_mode set, the crawl run by the web front end returns the
\* email-mode output format: the results of a finished email-mode session
\* are the lines '<email address>: <sorted, comma-space-joined source
\* URLs>', one per distinct address found on the pages it visited, which
\* are the lines scrape_site returns in email mode for the same site.
C30_EmailModeFormat ==
    \A s \in Sessions :
        (workers[s].pc = "finished" /\ workers[s].req.email_mode) =>
            /\ Len(workers[s].results) = Len(C30_EmailLines(workers[s]))
            /\ {workers[s].results[i] : i \in 1..Len(workers[s].results)}
                  = {C30_EmailLines(workers[s])[i] : i \in 1..Len(C30_EmailLines(workers[s]))}

-----------------------------------------------------------------------------
(* Failed pages: visited all the same, never scraped again *)

\* C31: a URL is marked visited before it is fetched, so a page whose fetch
\* fails or whose processing raises still counts toward max_pages and is
\* never fetched again for content, in the same crawl or in a later crawl
\* on the same instance: every page the running call has scraped, whatever
\* the outcome, is in visited_urls, was not visited when the call began,
\* was scraped once, and the visited set has grown by exactly one url per
\* page scraped.
C31_NoRetry ==
    /\ \A i \in 1..Len(fetch_log) :
          /\ fetch_log[i].url \in visited_urls
          /\ fetch_log[i].url \notin earlier_visited
          /\ \A j \in 1..Len(fetch_log) : fetch_log[j].url = fetch_log[i].url => j = i
    /\ Cardinality(visited_urls) = Cardinality(earlier_visited) + Len(fetch_log)

\* a later call on the instance has returned; one of its pages failed
C31_Witness ==
    /\ pc = "done"
    /\ earlier_visited # {}
    /\ \E i \in 1..Len(fetch_log) : fetch_log[i].scrape \in Failures

-----------------------------------------------------------------------------
(* Email mode with a matcher that was not built for it *)

\* the running call is in email mode with a matcher built without email_mode
C32_Mismatched == pc \in {"loop", "done"} /\ email_mode /\ ~pattern_matcher.email_mode

\* every page the call fetched raised ValueError in find_emails_with_pages or
\* failed before, all of it caught; nothing was found; the result is empty
C32_CaughtAndEmpty ==
    C32_Mismatched =>
        /\ \A i \in 1..Len(fetch_log) :
              /\ fetch_log[i].scrape \in Failures
              /\ fetch_log[i].found = <<>>
        /\ email_groups = <<>>
        /\ pc = "done" => results = <<>>

\* C32: scrape_site called with email_mode=True and a matcher that was not
\* constructed in email mode never raises: the error of
\* find_emails_with_pages on each page is caught by the loop, the final
\* result is an empty list, and no link is ever enqueued, so that only the
\* seed and the sitemap-bootstrapped URLs (all at depth 0) are marked
\* visited.
C32_NoLinkEnqueued ==
    /\ C32_CaughtAndEmpty
    /\ C32_Mismatched =>
          /\ step.appended = <<>>
          /\ \A i \in 1..Len(url_queue) : url_queue[i].depth = 0
          /\ \A i \in 1..Len(fetch_log) : fetch_log[i].depth = 0

\* the one way a link gets in: the first GET of the page failed
C32_OnlyAfterFailedFetch ==
    (C32_Mismatched /\ step.appended # <<>>) => step.scrape = "RequestException"

-----------------------------------------------------------------------------
(* What a status poll observes *)

\* the last poll was answered with status 'completed'
C33_SawCompleted == poll.code = 200 /\ poll.status = "completed"

\* the results of the poll are those a worker of the polled session id has
\* returned from _scrape_with_progress
C33_SawFinalResults ==
    C33_SawCompleted =>
        \E s \in Sessions :
            /\ workers[s].session_id = poll.session_id
            /\ workers[s].pc \in {"returned", "completed", "finished"}
            /\ poll.results = workers[s].results

\* the progress of every session dict is within 0..100
C33_ProgressInRange ==
    \A d \in 1..Len(session_data) : session_data[d].progress \in 0..100

\* the progress of a session dict never decreases
C33_ProgressMonotonic ==
    [][\A d \in 1..Len(session_data) :
          session_data'[d].progress >= session_data[d].progress]_vars

\* C33: whenever a status poll of a web session observes status
\* 'completed', it also observes progress 100 and the final result list of
\* that crawl, under every interleaving of the poll with the background
\* worker; progress stays within 0..100 and never decreases during a
\* session.
C33_CompletedPollIsFinal ==
    /\ [](/\ C33_SawCompleted => poll.progress = 100
          /\ C33_SawFinalResults
          /\ C33_ProgressInRange)
    /\ C33_ProgressMonotonic

\* a single session shows it: no second request was ever accepted
C33_AloneCompletedAt100 ==
    (Len(session_data) = 1 /\ C33_SawCompleted) => poll.progress = 100

-----------------------------------------------------------------------------
(* A stopped session *)

\* the session stored under id has been stopped
C34_Stopped(id) ==
    active_sessions[id] # 0 /\ session_data[active_sessions[id]].status = "stopped"

\* C34: once a web session has been stopped through /api/stop its status
\* stays 'stopped' until the session is cleared: in every step that leaves
\* its entry in place the status is still 'stopped' and no worker of that
\* session id processes a page.
C34_StoppedStays ==
    [][\A id \in SessionIds :
          (C34_Stopped(id) /\ active_sessions'[id] = active_sessions[id]) =>
              /\ session_data'[active_sessions[id]].status = "stopped"
              /\ \A s \in Sessions :
                    workers[s].session_id = id =>
                        workers'[s].processed_pages = workers[s].processed_pages]_vars

\* the same with one session only, for the status alone
C34_AloneStatusStays ==
    [][\A id \in SessionIds :
          (Len(session_data') = 1 /\ C34_Stopped(id)
           /\ active_sessions'[id] = active_sessions[id]) =>
              session_data'[active_sessions[id]].status = "stopped"]_vars

\* the same with one session only, for the fetches alone
C34_AloneNoFetch ==
    [][\A id \in SessionIds :
          (Len(session_data') = 1 /\ C34_Stopped(id)
           /\ active_sessions'[id] = active_sessions[id]) =>
              \A s \in Sessions :
                  workers[s].session_id = id =>
                      workers'[s].processed_pages = workers[s].processed_pages]_vars

-----------------------------------------------------------------------------
(* Session ids *)

\* the status of every session id handed out is available: its dict is
\* stored before the worker starts and the response is sent
C35_StatusAvailable ==
    \A s \in Sessions :
        workers[s].pc # "none" => active_sessions[workers[s].session_id] # 0

\* a poll is answered 404 only for an id that no request was given
C35_PollFindsStarted ==
    [][(poll' # poll /\ poll'.code = 404) =>
          \A s \in Sessions : workers[s].session_id # poll'.session_id]_vars

\* an accepted request stores its record under an id that was free
C35_NeverReplaces ==
    [][\A id \in SessionIds :
          active_sessions[id] # 0 => active_sessions'[id] = active_sessions[id]]_vars

\* C35: every accepted /api/start-scrape request gets a session_id that no
\* other live session has, so starting a session never replaces the stored
\* record (scraper, status, results) of another session, also when two
\* requests arrive within the same second; the status of the returned
\* session_id is available as soon as the start response is sent.
C35_UniqueSessionId ==
    /\ C35_NeverReplaces
    /\ []C35_StatusAvailable
    /\ C35_PollFindsStarted

=============================================================================
